---- MODULE Spec2Model ----
(***************************************************************************)
(* Retrieval pipeline of gts-graph-rag (backend/agent): the LangGraph      *)
(* workflow of graph.py, its nodes (nodes.py, temp_nodes.py,               *)
(* url_intent.py) and the two callers that consume a run                   *)
(* (services/rag_service.py run_rag_query, routers/chat.py generate).      *)
(*                                                                         *)
(* One behaviour of Spec is one pipeline run.  Scores and distances are    *)
(* integers in tenths (0.8 is 8, cosine distance 1.5 is 15).               *)
(***************************************************************************)
EXTENDS Integers, Sequences, FiniteSets, TLC

(***************************************************************************)
(* Bounds of the model.                                                    *)
(***************************************************************************)
\* hits one collection query returns at most (the code asks for 2 * top_n)
MaxHits == 1
\* chunks one URL intake stores at most
MaxChunks == 1
\* backend failures (a capability raising or being unavailable) in one run
MaxFaults == 1
\* items of the vector list handed to one fusion pass
MaxFusionList == 2
\* documents uploaded, and chunks one document is split into
MaxDocs == 2
MaxDocChunks == 2
\* settings.vector_search_results (env VECTOR_SEARCH_RESULTS, default 5),
\* kept small so that truncation happens within the bounds
vector_search_results == 2

(***************************************************************************)
(* Program constants.                                                      *)
(***************************************************************************)
min_relevance_score == 3
GRAPH_SCORE == 8
MAX_URLS == 5
TEMP_N_RESULTS == 5

NoneV == "None"
END == "__end__"

FALLBACK_ANSWER == "I couldn't find sufficient information to answer your question. Please try rephrasing or provide more context."
NO_ANSWER_TEXT == "No answer could be generated."
NO_URLS_ANSWER == "No URLs found in your message."
FETCH_FAILED_ANSWER == "Unable to fetch content from url"
URL_ERROR_ANSWER == "Error processing URL"
GENERATION_ERROR_ANSWER == "I encountered an error generating the answer"

(***************************************************************************)
(* Data domains.                                                           *)
(***************************************************************************)
\* a chunk's text: its first 200 characters (head) and the rest (tail)
Content(head, tail) == [head |-> head, tail |-> tail]
EmptyContent == Content("", "")
Contents == {Content("a", ""), Content("b", ""), Content("g", ""), EmptyContent}
\* a text longer than 200 characters that starts as Content("a", "") does
LongContent == Content("a", "x")
\* cosine distances (tenths, range 0..20) of a near and of a far document
NearDist == 2
FarDist == 15
\* texts a generation / summary LLM call can return
LLMTexts == {"text"}

\* words of a question: plain words, http(s):// URLs and www. URLs; punct
\* says that sentence punctuation (one of .,;:!?) follows the word directly
Tok(kind, text, punct) == [kind |-> kind, text |-> text, punct |-> punct]
Questions ==
    { << Tok("word", "hello", FALSE) >>,
      << Tok("www", "www.b.com", FALSE), Tok("http", "https://a.com", FALSE),
         Tok("http", "https://a.com", TRUE) >> }

Opt(isNone, ids) == [isNone |-> isNone, ids |-> ids]
\* Python truth value of an optional list
Truthy(o) == ~o.isNone /\ Len(o.ids) > 0

(***************************************************************************)
(* Sequence helpers.                                                       *)
(***************************************************************************)
Range(s) == {s[i] : i \in 1..Len(s)}
Take(s, n) == SubSeq(s, 1, IF n < Len(s) THEN n ELSE Len(s))
Min(a, b) == IF a < b THEN a ELSE b
Max(a, b) == IF a > b THEN a ELSE b

\* x.get("score", 0): scored is FALSE for an item without a "score" key
Score(x) == IF x.scored THEN x.score ELSE 0

RECURSIVE InsertBeforeTies(_, _)
\* an unstable insertion: x goes before the elements of equal score
InsertBeforeTies(s, x) ==
    IF s = << >> THEN << x >>
    ELSE IF Score(Head(s)) > Score(x) THEN << Head(s) >> \o InsertBeforeTies(Tail(s), x)
    ELSE << x >> \o s

RECURSIVE InsertDesc(_, _)
\* insert x after every element whose score is >= the score of x
InsertDesc(s, x) ==
    IF s = << >> THEN << x >>
    ELSE IF Score(Head(s)) >= Score(x) THEN << Head(s) >> \o InsertDesc(Tail(s), x)
    ELSE << x >> \o s

RECURSIVE SortByScoreDesc(_)
\* list.sort(key=score, reverse=True): stable, descending
SortByScoreDesc(s) ==
    IF s = << >> THEN << >>
    ELSE InsertDesc(SortByScoreDesc(SubSeq(s, 1, Len(s) - 1)), s[Len(s)])

IsSortedDesc(s) == \A i \in 1..Len(s) - 1 : Score(s[i]) >= Score(s[i + 1])

(***************************************************************************)
(* Retrieved items.                                                        *)
(***************************************************************************)
\* retrieval_source is "" until the reranker node stamps it; reranked is
\* TRUE once the rerank service has replaced the score (rerank_score key)
Item(content, score, source, source_type) ==
    [content |-> content, scored |-> TRUE, score |-> score, source |-> source,
     source_type |-> source_type, retrieval_source |-> "", reranked |-> FALSE]

\* one hit of a collection query: document text and cosine distance
Hit(content, dist) == [content |-> content, dist |-> dist]
\* the documents a collection holds and their distance to the question:
\* org_2 holds "b", far from it; org_3 holds a record whose text is empty;
\* org_1 and the default collection (0) hold "a", near it
CollectionDoc(col) ==
    IF col = 2 THEN Hit(Content("b", ""), FarDist)
    ELSE IF col = 3 THEN Hit(EmptyContent, NearDist)
    ELSE Hit(Content("a", ""), NearDist)
\* a query returns up to MaxHits of them
QueryResults(col) == {[i \in 1..k |-> CollectionDoc(col)] : k \in 0..MaxHits}

(***************************************************************************)
(* URL detection of router and url_intent_detector.                        *)
(***************************************************************************)
\* re.findall(url_pattern, question) followed by rstrip(".,;:!?")
FindUrls(question) ==
    LET matches == SelectSeq(question, LAMBDA t : t.kind # "word")
    IN  [i \in 1..Len(matches) |-> matches[i].text]

\* list(set(xs)): the distinct elements in the iteration order of the
\* process's string hashing, given as a sequence over all URLs
ListOfSet(order, xs) == SelectSeq(order, LAMBDA u : u \in Range(xs))

DetectUrls(order, question) == ListOfSet(order, FindUrls(question))

\* extract_urls_from_text's cleaning of one match: a match that starts with
\* "www." gets the scheme in front
clean_url(match) == IF match.kind = "www" THEN "https://" \o match.text ELSE match.text
\* extract_urls_from_text (ingestion/temp_knowledge.py)
extract_urls_from_text(order, text) ==
    LET matches == SelectSeq(text, LAMBDA t : t.kind # "word")
    IN  ListOfSet(order, [i \in 1..Len(matches) |-> clean_url(matches[i])])

(***************************************************************************)
(* DashScopeRerank.rerank.  resp is the service's behaviour on this call:  *)
(* resp.ok is FALSE when the call raises or returns a non-200 status,      *)
(* resp.rel[c] is the relevance score it gives a document of text c.       *)
(***************************************************************************)
RelOf(a, b, g) ==
    [c \in Contents \cup {LongContent} |-> IF c.head = "a" THEN a ELSE IF c.head = "b" THEN b ELSE g]
RerankResponses ==
    { [ok |-> FALSE, rel |-> RelOf(1, 1, 1)],
      [ok |-> TRUE, rel |-> RelOf(1, 6, 9)],
      [ok |-> TRUE, rel |-> RelOf(1, 1, 1)] }
Rel(resp, documents, i) == resp.rel[documents[i].content]

RECURSIVE InsertByRel(_, _, _, _)
InsertByRel(s, i, resp, documents) ==
    IF s = << >> THEN << i >>
    ELSE IF Rel(resp, documents, Head(s)) >= Rel(resp, documents, i)
    THEN << Head(s) >> \o InsertByRel(Tail(s), i, resp, documents)
    ELSE << i >> \o s

RECURSIVE RankByRel(_, _, _)
\* the service's results: document indices 1..n by descending relevance
RankByRel(n, resp, documents) ==
    IF n = 0 THEN << >>
    ELSE InsertByRel(RankByRel(n - 1, resp, documents), n, resp, documents)

rerank(documents, top_n, min_score, resp) ==
    IF documents = << >> THEN << >>
    ELSE IF ~resp.ok THEN SortByScoreDesc(Take(documents, top_n))
    ELSE LET results == Take(RankByRel(Len(documents), resp, documents),
                             Min(top_n * 2, Len(documents)))
             kept == SelectSeq(results, LAMBDA i : Rel(resp, documents, i) >= min_score)
             reranked == [k \in 1..Len(kept) |->
                            [documents[kept[k]] EXCEPT !.score = Rel(resp, documents, kept[k]),
                                                       !.scored = TRUE,
                                                       !.reranked = TRUE]]
         IN  Take(SortByScoreDesc(reranked), top_n)

(***************************************************************************)
(* Pipeline state.                                                         *)
(***************************************************************************)
VARIABLES
    state,          \* the AgentState channels of the run
    tasks,          \* nodes of the current superstep that have not run yet
    pending,        \* nodes of the current superstep whose writes wait for the barrier
    outputs,        \* node |-> [upd: the dict it returned, next: where its edges lead]
    run,            \* "running", "ended" or "aborted" (a node raised)
    history,        \* the nodes of every finished superstep, in order
    calls,          \* which node used which capability, and how each collection.query ended
    tempStore,      \* chunks of the request session's ephemeral collection
    env,            \* process configuration and runtime
    faults,         \* backend failures so far in this run
    final_answer,   \* the final_answer accumulators of run_rag_query and chat.generate
    delivered,      \* what each caller hands to its client when the run is over
    collections,    \* the ephemeral store: collection name |-> the chunks it holds
    storeOp,        \* the last operation on the ephemeral store and what it gave back
    now,            \* the wall clock, in hours
    organizations,  \* the organization table: id |-> the stored row
    orgOp,          \* how the last write to the organization table ended
    singleton,      \* the module globals _x_instance: name |-> instance, 0 for None
    constructions,  \* name |-> how many times the constructor has run
    handedOut,      \* name |-> the instances the getter has returned so far
    getter,         \* thread |-> where it is in a get_x() call
    docRows,        \* the document table: id |-> row and state of its ingestion task
    orgChunks       \* id |-> the chunks of that document in the organization's collection

\* the variables of a pipeline run
pipeline == << state, tasks, pending, outputs, run, history, calls, tempStore, env,
               faults, final_answer, delivered >>
\* the variables of the services around the pipeline
ephemeral == << collections, storeOp, now >>
orgTable == << organizations, orgOp >>
process == << singleton, constructions, handedOut, getter >>
docStore == << docRows, orgChunks >>
services == << ephemeral, orgTable, process, docStore >>
vars == << pipeline, services >>

NoStoreOp == [op |-> "none", session_id |-> << >>, returned |-> {}, removed |-> {},
              count |-> 0]
\* the lazily created clients of the process (models/embeddings.py,
\* models/rerank.py) and the worker threads that ask for them
Singletons == {"embeddings", "rerank"}
Threads == {"t1", "t2"}
NotCalling == [pc |-> "idle", name |-> "", mine |-> 0]
\* the process before any get_x() call
ProcessIdle ==
    /\ singleton = [name \in Singletons |-> 0]
    /\ constructions = [name \in Singletons |-> 0]
    /\ handedOut = [name \in Singletons |-> {}]
    /\ getter = [t \in Threads |-> NotCalling]

\* a document row: status "none" before the upload and "deleted" after the
\* row was removed; task is the background run_ingestion of the document
DocRow(status, chroma_ids, task) == [status |-> status, chroma_ids |-> chroma_ids, task |-> task]
\* no document uploaded yet
DocsIdle ==
    /\ docRows = [d \in 1..MaxDocs |-> DocRow("none", {}, "none")]
    /\ orgChunks = [d \in 1..MaxDocs |-> {}]

\* the services when only the pipeline is looked at
ServicesIdle ==
    /\ collections = << >>
    /\ storeOp = NoStoreOp
    /\ now = 0
    /\ organizations = << >>
    /\ orgOp = "none"
    /\ ProcessIdle
    /\ DocsIdle

\* is_rerank_enabled(): rerank is switched on or off by configuration
is_rerank_enabled == env.rerank_enabled

Nodes == {"url_intent_detector", "direct_url_summarizer", "router", "url_processor",
          "vector_retriever", "graph_retriever", "temp_retriever", "reranker",
          "retrieval_evaluator", "grader", "generator", "insufficient_handler"}

\* the keys AgentState declares (messages, graph_viz_data and custom_prompt
\* carry no pipeline decision and are left out of the model)
DeclaredKeys == {"question", "org_ids", "file_ids", "context", "vector_context",
                 "graph_context", "temp_context", "steps", "retrieval_mode", "grade",
                 "answer", "session_id", "detected_urls", "temp_files",
                 "url_summarize_direct"}
\* the channels annotated with operator.add
AddKeys == {"context", "vector_context", "graph_context", "temp_context", "steps"}

\* the state after one node's returned dict is merged into it; a key the
\* schema does not declare is merged only by a runtime that keeps such keys
ApplyUpdate(s, u, keep) ==
    [k \in DOMAIN s |->
        IF k \in DOMAIN u /\ (k \in DeclaredKeys \/ keep)
        THEN IF k \in AddKeys THEN s[k] \o u[k] ELSE u[k]
        ELSE s[k]]

\* state.get("retrieval_status", "insufficient")
Unset == "<unset>"
GetStatus(s) == IF s.retrieval_status = Unset THEN "insufficient" ELSE s.retrieval_status

initial_state(question, org_ids, file_ids, session_id, temp_files) ==
    [question |-> question, org_ids |-> org_ids, file_ids |-> file_ids,
     context |-> << >>, vector_context |-> << >>, graph_context |-> << >>,
     temp_context |-> << >>, steps |-> << >>, retrieval_mode |-> "", grade |-> "",
     answer |-> "", session_id |-> session_id, detected_urls |-> << >>,
     temp_files |-> temp_files, url_summarize_direct |-> FALSE,
     retrieval_status |-> Unset]

\* a stored chunk; dist is its distance to the question of the run
Chunk(id, content, source, source_type, dist) ==
    [id |-> id, content |-> content, source |-> source, source_type |-> source_type,
     dist |-> dist]
OldChunk == Chunk("old", Content("a", ""), "notes.txt", "file", NearDist)

\* session id, uploaded temp file ids and what the session's collection
\* holds when the request arrives
SessionCases ==
    { [session_id |-> NoneV, temp_files |-> Opt(TRUE, << >>), store |-> {}],
      [session_id |-> NoneV, temp_files |-> Opt(FALSE, << "f1" >>), store |-> {}],
      [session_id |-> "s1", temp_files |-> Opt(TRUE, << >>), store |-> {}],
      [session_id |-> "s1", temp_files |-> Opt(TRUE, << >>), store |-> {OldChunk}],
      [session_id |-> "s1", temp_files |-> Opt(FALSE, << "f1" >>), store |-> {OldChunk}] }

PENDING == "<pending>"
RAISED == "<exception>"
CHAT_ERROR == "<error event>"

Init ==
    /\ \E question \in Questions,
          org_ids \in {<< >>, << 2, 1 >>, << 3 >>},
          file_ids \in {Opt(TRUE, << >>), Opt(FALSE, << >>), Opt(FALSE, << 7 >>)},
          sess \in SessionCases :
            /\ state = initial_state(question, org_ids, file_ids, sess.session_id,
                                     sess.temp_files)
            /\ tempStore = sess.store
    /\ tasks = {"url_intent_detector"}
    /\ pending = {}
    /\ outputs = << >>
    /\ run = "running"
    /\ history = << >>
    /\ calls = [llm |-> {}, embed |-> {}, rerank |-> {}, fetch |-> {}, query |-> << >>]
    /\ env \in [rerank_enabled : BOOLEAN, keeps_undeclared_keys : BOOLEAN,
                hash_order : {<< "https://a.com", "www.b.com" >>}]
    /\ faults = 0
    /\ final_answer = [rag |-> "", chat |-> ""]
    /\ delivered = [rag |-> PENDING, chat |-> PENDING]
    /\ ServicesIdle

(***************************************************************************)
(* Routing functions of graph.py.                                          *)
(***************************************************************************)
\* route_after_intent ignoring url_summarize_direct
route_after_intent_always_router(s) == "router"

route_after_intent(s) ==
    IF s.url_summarize_direct THEN "direct_url_summarizer" ELSE "router"

\* the check without the count: TRUE for every collection that can be opened
has_temp_data_uncounted(store, storeOk) == storeOk
\* collection.count() > 0, FALSE when the store raises
has_temp_data(store, storeOk) == storeOk /\ store # {}

route_after_router(s, store, storeOk) ==
    LET urlp == IF s.detected_urls # << >> /\ s.session_id # NoneV
                THEN {"url_processor"} ELSE {}
        temp == IF s.session_id # NoneV
                   /\ (Truthy(s.temp_files) \/ s.detected_urls # << >>
                       \/ has_temp_data(store, storeOk))
                THEN {"temp_retriever"} ELSE {}
    IN  urlp \cup {"vector_retriever"} \cup temp

\* the two branches of route_grader swapped
route_grader_swapped(s) ==
    IF s.grade = "relevant" THEN "insufficient_handler" ELSE "generator"

route_grader(s) ==
    IF s.grade = "relevant" THEN "generator" ELSE "insufficient_handler"

route_retrieval_evaluator(s) ==
    IF GetStatus(s) = "sufficient" THEN "reranker" ELSE "graph_retriever"

(***************************************************************************)
(* The runtime around a node: a node reads the state of the superstep's    *)
(* start, its returned dict is kept until the barrier, and the caller's    *)
(* event loop sees its on_chain_end event.                                 *)
(***************************************************************************)
\* on_chain_end handling of run_rag_query and chat.generate
OnChainEnd(fa, n, upd) ==
    IF n \in {"generator", "direct_url_summarizer"} /\ "answer" \in DOMAIN upd /\ fa = ""
    THEN upd.answer ELSE fa

\* the state a conditional edge of node n reads: the node's own writes applied
Fresh(upd) == ApplyUpdate(state, upd, env.keeps_undeclared_keys)

Return(n, upd, next) ==
    /\ outputs' = outputs @@ (n :> [upd |-> upd, next |-> next])
    /\ tasks' = tasks \ {n}
    /\ pending' = pending \cup {n}
    /\ final_answer' = [rag |-> OnChainEnd(final_answer.rag, n, upd),
                        chat |-> OnChainEnd(final_answer.chat, n, upd)]
    /\ UNCHANGED << state, run, history, env, delivered >>
    /\ UNCHANGED services

\* the node raises: the run stops, run_rag_query propagates the exception
\* and chat.generate emits its error event
Raise(n) ==
    /\ run' = "aborted"
    /\ tasks' = {}
    /\ pending' = {}
    /\ history' = Append(history, pending \cup {n})
    /\ delivered' = [rag |-> RAISED, chat |-> CHAT_ERROR]
    /\ UNCHANGED << state, outputs, env, final_answer >>
    /\ UNCHANGED services

Ready(n) == run = "running" /\ n \in tasks

\* k backend failures happen in this step
Fail(k) == faults + k <= MaxFaults /\ faults' = faults + k

\* tasks write in the order of their names
TaskOrder == << "direct_url_summarizer", "generator", "grader", "graph_retriever",
                "insufficient_handler", "reranker", "retrieval_evaluator", "router",
                "temp_retriever", "url_intent_detector", "url_processor",
                "vector_retriever" >>

RECURSIVE ApplyWrites(_, _)
ApplyWrites(s, order) ==
    IF order = << >> THEN s
    ELSE ApplyWrites(IF Head(order) \in pending
                     THEN ApplyUpdate(s, outputs[Head(order)].upd, env.keeps_undeclared_keys)
                     ELSE s,
                     Tail(order))

\* end of a superstep: the writes are applied and the edges pick the next
\* nodes; with none left the stream of events ends and the callers finish
Barrier ==
    /\ run = "running"
    /\ tasks = {}
    /\ pending # {}
    /\ state' = ApplyWrites(state, TaskOrder)
    /\ LET next == UNION {outputs[n].next : n \in pending} \ {END}
       IN  /\ tasks' = next
           /\ run' = IF next = {} THEN "ended" ELSE "running"
           /\ delivered' = IF next = {}
                           THEN [rag |-> final_answer.rag,
                                 chat |-> IF final_answer.chat # "" THEN final_answer.chat
                                          ELSE NO_ANSWER_TEXT]
                           ELSE delivered
    /\ pending' = {}
    /\ history' = Append(history, pending)
    /\ UNCHANGED << outputs, calls, tempStore, env, faults, final_answer >>
    /\ UNCHANGED services

(***************************************************************************)
(* Intent branch (url_intent.py).                                          *)
(***************************************************************************)
\* the intent classifier asking the LLM whether or not files are uploaded
files_ignored(temp_files) == FALSE
\* `if temp_files:` uploaded files send a question with URLs to the RAG
\* branch without asking the LLM
files_force_rag(temp_files) == Truthy(temp_files)

url_intent_detector ==
    /\ Ready("url_intent_detector")
    /\ LET n == "url_intent_detector"
           detected_urls == DetectUrls(env.hash_order, state.question)
           out(direct, urls, steps) ==
               [url_summarize_direct |-> direct, detected_urls |-> urls, steps |-> steps]
           done(upd) == Return(n, upd, {route_after_intent(Fresh(upd))})
       IN  IF detected_urls = << >>
           THEN /\ done(out(FALSE, << >>, << "intent: analyzing", "intent: no urls" >>))
                /\ UNCHANGED << calls, tempStore, faults >>
           ELSE IF files_force_rag(state.temp_files)
           THEN /\ done(out(FALSE, detected_urls,
                            << "intent: analyzing", "intent: found urls",
                               "intent: files uploaded, using RAG" >>))
                /\ UNCHANGED << calls, tempStore, faults >>
           ELSE /\ calls' = [calls EXCEPT !.llm = @ \cup {n}]
                /\ UNCHANGED tempStore
                /\ \E verdict \in {"DIRECT_SUMMARY", "RAG_QUERY", "raise"} :
                     CASE verdict = "DIRECT_SUMMARY" ->
                            /\ Fail(0)
                            /\ done(out(TRUE, detected_urls,
                                        << "intent: analyzing", "intent: found urls",
                                           "intent: direct summary" >>))
                       [] verdict = "RAG_QUERY" ->
                            /\ Fail(0)
                            /\ done(out(FALSE, detected_urls,
                                        << "intent: analyzing", "intent: found urls",
                                           "intent: specific query" >>))
                       [] OTHER ->
                            /\ Fail(1)
                            /\ done(out(FALSE, detected_urls,
                                        << "intent: analyzing", "intent: found urls",
                                           "intent: error, defaulting to RAG" >>))

direct_url_summarizer ==
    /\ Ready("direct_url_summarizer")
    /\ LET n == "direct_url_summarizer"
           detected_urls == state.detected_urls
           done(upd) == Return(n, upd, {END})
       IN  IF detected_urls = << >>
           THEN /\ done([answer |-> NO_URLS_ANSWER, steps |-> << "direct: fetching" >>])
                /\ UNCHANGED << calls, tempStore, faults >>
           ELSE /\ UNCHANGED tempStore
                /\ \E fetched \in {"nothing", "page"} :
                     IF fetched = "nothing"
                     THEN /\ calls' = [calls EXCEPT !.fetch = @ \cup {n}]
                          /\ Fail(1)
                          /\ done([answer |-> FETCH_FAILED_ANSWER,
                                   steps |-> << "direct: fetching", "direct: loading",
                                                "direct: fetch failed" >>])
                     ELSE /\ calls' = [calls EXCEPT !.fetch = @ \cup {n}, !.llm = @ \cup {n}]
                          /\ \E content \in Contents, summary \in LLMTexts \cup {"raise"} :
                               IF summary = "raise"
                               THEN /\ Fail(1)
                                    /\ done([answer |-> URL_ERROR_ANSWER,
                                          steps |-> << "direct: fetching", "direct: loading",
                                                       "direct: fetched", "direct: summarizing",
                                                       "direct: error" >>])
                               ELSE /\ Fail(0)
                                    /\ done([answer |-> summary,
                                          steps |-> << "direct: fetching", "direct: loading",
                                                       "direct: fetched", "direct: summarizing",
                                                       "direct: summary generated" >>,
                                          context |-> << [Item(content, 0, detected_urls[1],
                                                               "url_direct")
                                                          EXCEPT !.scored = FALSE] >>])

(***************************************************************************)
(* Router (nodes.py).                                                      *)
(***************************************************************************)
\* `if file_ids and len(file_ids) > 0` read as `if file_ids is not None`
router_mode_not_none(file_ids) ==
    IF ~file_ids.isNone THEN "vector_only" ELSE "parallel"

\* the retrieval_mode the router sets
router_mode(file_ids) ==
    IF Truthy(file_ids) /\ Len(file_ids.ids) > 0 THEN "vector_only" ELSE "parallel"

router ==
    /\ Ready("router")
    /\ LET n == "router"
           detected_urls == DetectUrls(env.hash_order, state.question)
           steps0 == << "router: analyzing" >>
                     \o (IF detected_urls # << >> THEN << "router: detected urls" >> ELSE << >>)
           file_ids == state.file_ids
           upd == IF router_mode(file_ids) = "vector_only"
                  THEN [retrieval_mode |-> "vector_only", detected_urls |-> detected_urls,
                        steps |-> steps0 \o << "router: file filter, vector only" >>]
                  ELSE [retrieval_mode |-> "parallel", detected_urls |-> detected_urls,
                        steps |-> steps0 \o << "router: parallel retrieval" >>]
           \* has_temp_data is reached only when the tests before it are falsy
           consulted == /\ state.session_id # NoneV
                        /\ ~Truthy(state.temp_files)
                        /\ detected_urls = << >>
       IN  \E storeOk \in (IF consulted THEN BOOLEAN ELSE {TRUE}) :
               /\ Fail(IF storeOk THEN 0 ELSE 1)
               /\ Return(n, upd, route_after_router(Fresh(upd), tempStore, storeOk))
    /\ UNCHANGED << calls, tempStore >>

(***************************************************************************)
(* Primary retrieval: URL intake, vector adapter, ephemeral adapter.       *)
(***************************************************************************)
\* what one collection.query call does: raises, or returns hits
QueryOutcomes(col) ==
    {[ok |-> FALSE, hits |-> << >>]} \cup {[ok |-> TRUE, hits |-> r] : r \in QueryResults(col)}

VectorItem(hit) == Item(hit.content, 10 - hit.dist, "vector", "")

\* the loop over collections_to_query: the items of every collection whose
\* query succeeded and one warning per collection whose query raised
RECURSIVE QueryAllNoTry(_)
\* the loop without its try block: the first query that raises ends it
QueryAllNoTry(outs) ==
    IF outs = << >> THEN [results |-> << >>, warnings |-> << >>]
    ELSE LET o == Head(outs)
         IN  IF o.ok
             THEN LET rest == QueryAllNoTry(Tail(outs))
                  IN  [results |-> [i \in 1..Len(o.hits) |-> VectorItem(o.hits[i])]
                                   \o rest.results,
                       warnings |-> rest.warnings]
             ELSE [results |-> << >>, warnings |-> << "vector: search warning" >>]

RECURSIVE QueryAll(_)
QueryAll(outs) ==
    IF outs = << >> THEN [results |-> << >>, warnings |-> << >>]
    ELSE LET rest == QueryAll(Tail(outs))
             o == Head(outs)
         IN  IF o.ok
             THEN [results |-> [i \in 1..Len(o.hits) |-> VectorItem(o.hits[i])] \o rest.results,
                   warnings |-> rest.warnings]
             ELSE [results |-> rest.results,
                   warnings |-> << "vector: search warning" >> \o rest.warnings]

vector_retriever ==
    /\ Ready("vector_retriever")
    /\ UNCHANGED tempStore
    /\ LET n == "vector_retriever"
           org_ids == state.org_ids
           collections_to_query == IF org_ids # << >> THEN org_ids ELSE << 0 >>
       IN  \E embedOk \in BOOLEAN :
             IF ~embedOk
             THEN /\ calls' = [calls EXCEPT !.embed = @ \cup {n}]
                  /\ Fail(1)
                  /\ Raise(n)
             ELSE \E outs \in {o \in [1..Len(collections_to_query) ->
                                        UNION {QueryOutcomes(c) : c \in Range(collections_to_query)}] :
                                   \A i \in DOMAIN o : o[i] \in QueryOutcomes(collections_to_query[i])} :
                    LET q == QueryAll(outs)
                        steps == << "vector: searching" >> \o q.warnings
                        all_results == SortByScoreDesc(q.results)
                    IN  IF all_results # << >> /\ is_rerank_enabled
                        THEN /\ calls' = [calls EXCEPT !.embed = @ \cup {n}, !.rerank = @ \cup {n},
                                                       !.query = outs]
                             /\ \E resp \in RerankResponses :
                                  /\ Fail(Len(q.warnings) + (IF resp.ok THEN 0 ELSE 1))
                                  /\ Return(n, [vector_context |->
                                                rerank(all_results, vector_search_results,
                                                       min_relevance_score, resp),
                                             steps |-> steps \o << "vector: reranking",
                                                                   "vector: found after reranking" >>],
                                         {"retrieval_evaluator"})
                        ELSE /\ calls' = [calls EXCEPT !.embed = @ \cup {n}, !.query = outs]
                             /\ Fail(Len(q.warnings))
                             /\ Return(n, [vector_context |-> Take(all_results, vector_search_results),
                                           steps |-> steps \o << "vector: found" >>],
                                       {"retrieval_evaluator"})

\* the node without its try block: an exception of ingest_urls_to_temp
\* (embedding, store) leaves the node
url_processor_raises_without_try(outcome) == outcome = "raise"
\* `except Exception` around the ingestion: nothing leaves the node
url_processor_raises(outcome) == FALSE

url_processor ==
    /\ Ready("url_processor")
    /\ LET n == "url_processor"
           detected_urls == state.detected_urls
           session_id == state.session_id
           urls_to_process == Take(detected_urls, MAX_URLS)
           done(steps) == Return(n, [steps |-> steps], {"retrieval_evaluator"})
       IN  IF detected_urls = << >>
           THEN done(<< "url: no urls" >>) /\ UNCHANGED << calls, tempStore, faults >>
           ELSE IF session_id = NoneV
           THEN done(<< "url: no session, skipping" >>) /\ UNCHANGED << calls, tempStore, faults >>
           ELSE /\ calls' = [calls EXCEPT !.fetch = @ \cup {n}]
                /\ \E outcome \in {"raise", "nothing", "chunks"} :
                     CASE url_processor_raises(outcome) ->
                            /\ Fail(1)
                            /\ Raise(n)
                            /\ UNCHANGED tempStore
                       [] outcome = "raise" ->
                            /\ Fail(1)
                            /\ done(<< "url: found", "url: fetching", "url: processing failed" >>)
                            /\ UNCHANGED tempStore
                       [] outcome = "nothing" ->
                            /\ Fail(0)
                            /\ done(<< "url: found", "url: fetching", "url: no content" >>)
                            /\ UNCHANGED tempStore
                       [] OTHER ->
                            \E k \in 1..MaxChunks :
                                /\ Fail(0)
                                /\ tempStore' = tempStore \cup
                                      {Chunk("url_" \o ToString(i), Content("b", ""),
                                             urls_to_process[1], "url", FarDist) :
                                          i \in 1..k}
                                /\ done(<< "url: found", "url: fetching", "url: extracted",
                                           "url: cleaned" >>)

\* the hits of a query on the session's collection: the min(n, count)
\* nearest chunks, nearest first
TempQueryResults(store, k) ==
    {r \in [1..k -> store] :
        /\ \A i, j \in 1..k : i # j => r[i] # r[j]
        /\ \A i \in 1..k - 1 : r[i].dist <= r[i + 1].dist}

TempItem(chunk) ==
    Item(chunk.content, Max(0, 10 - chunk.dist), chunk.source, chunk.source_type)

temp_retriever ==
    /\ Ready("temp_retriever")
    /\ UNCHANGED tempStore
    /\ LET n == "temp_retriever"
           session_id == state.session_id
           done(ctx, steps) ==
               Return(n, [temp_context |-> ctx, steps |-> << "temp: searching" >> \o steps],
                      {"retrieval_evaluator"})
       IN  IF session_id = NoneV
           THEN done(<< >>, << "temp: no session, skipping" >>) /\ UNCHANGED << calls, faults >>
           ELSE \E storeOk \in BOOLEAN :
                  IF ~has_temp_data(tempStore, storeOk)
                  THEN /\ Fail(IF storeOk THEN 0 ELSE 1)
                       /\ done(<< >>, << "temp: no data" >>)
                       /\ UNCHANGED calls
                  ELSE /\ calls' = [calls EXCEPT !.embed = @ \cup {n}]
                       /\ \E outcome \in {"embed raises", "query raises", "ok"} :
                            IF outcome # "ok"
                            THEN /\ Fail(1)
                                 /\ done(<< >>, << "temp: retrieval error" >>)
                            ELSE /\ Fail(0)
                                 /\ \E r \in TempQueryResults(tempStore,
                                              Min(TEMP_N_RESULTS, Cardinality(tempStore))) :
                                       done([i \in 1..Len(r) |-> TempItem(r[i])],
                                            << "temp: retrieved" >>)

(***************************************************************************)
(* Sufficiency pre-check and graph adapter.                                *)
(***************************************************************************)
\* `not vector_context and not temp_context` with the second `not` lost
no_primary_context_typo(vector_context, temp_context) ==
    vector_context = << >> /\ temp_context # << >>

\* `if not vector_context and not temp_context`
no_primary_context(vector_context, temp_context) ==
    vector_context = << >> /\ temp_context = << >>

\* the pre-check failing toward the shorter path
status_on_error_sufficient == "sufficient"
\* the retrieval_status of the except branch of retrieval_evaluator
status_on_error == "insufficient"

retrieval_evaluator ==
    /\ Ready("retrieval_evaluator")
    /\ UNCHANGED tempStore
    /\ LET n == "retrieval_evaluator"
           vector_context == state.vector_context
           temp_context == state.temp_context
           done(status, steps) ==
               LET upd == [retrieval_status |-> status, steps |-> steps]
               IN  Return(n, upd, {route_retrieval_evaluator(Fresh(upd))})
       IN  IF no_primary_context(vector_context, temp_context)
           THEN /\ done("insufficient", << "evaluator: no vector context, trying graph" >>)
                /\ UNCHANGED << calls, faults >>
           ELSE /\ calls' = [calls EXCEPT !.llm = @ \cup {n}]
                /\ \E verdict \in {"YES", "NO", "raise"} :
                     CASE verdict = "YES" ->
                            /\ Fail(0)
                            /\ done("sufficient", << "evaluator: evaluating",
                                                     "evaluator: sufficient, skipping graph" >>)
                       [] verdict = "NO" ->
                            /\ Fail(0)
                            /\ done("insufficient", << "evaluator: evaluating",
                                                       "evaluator: insufficient, activating graph" >>)
                       [] OTHER ->
                            /\ Fail(1)
                            /\ done(status_on_error, << "evaluator: evaluating",
                                                        "evaluator: error, defaulting to graph" >>)

\* graph_retriever without its try block: an exception of chain.invoke
\* leaves the node
graph_raises_without_try(chain) == chain = "raises"
\* whether an outcome of the Cypher chain leaves graph_retriever as an
\* exception: get_cypher_chain returns None instead of raising, and
\* chain.invoke and all that follows sit in one try block
graph_raises(chain) == FALSE

\* the organization whose documents the shared graph database was filled
\* from (ingest_to_neo4j tags every chunk with its org.id)
GraphDataOrg == 1

graph_retriever ==
    /\ Ready("graph_retriever")
    /\ UNCHANGED tempStore
    /\ LET n == "graph_retriever"
           done(upd) == Return(n, upd, {"reranker"})
       IN  \E chain \in {"unavailable", "raises", "no answer", "answer"} :
             CASE graph_raises(chain) ->
                    /\ Fail(1)
                    /\ Raise(n)
                    /\ calls' = [calls EXCEPT !.llm = @ \cup {n}]
               [] chain = "unavailable" ->
                    /\ Fail(1)
                    /\ done([steps |-> << "graph: querying", "graph: not available" >>])
                    /\ UNCHANGED calls
               [] chain = "raises" ->
                    /\ Fail(1)
                    /\ done([steps |-> << "graph: querying", "graph: query error" >>])
                    /\ calls' = [calls EXCEPT !.llm = @ \cup {n}]
               [] chain = "no answer" ->
                    /\ Fail(0)
                    /\ done([steps |-> << "graph: querying", "graph: no relevant data" >>])
                    /\ calls' = [calls EXCEPT !.llm = @ \cup {n}]
               [] OTHER ->
                    /\ Fail(0)
                    /\ calls' = [calls EXCEPT !.llm = @ \cup {n}]
                    /\ done([graph_context |-> << Item(Content("g", ""), GRAPH_SCORE,
                                                        "graph", "") >>,
                              steps |-> << "graph: querying", "graph: found" >>])

(***************************************************************************)
(* Fusion (reranker node).                                                 *)
(***************************************************************************)
Stamp(ctxs, tag) == [i \in 1..Len(ctxs) |-> [ctxs[i] EXCEPT !.retrieval_source = tag]]

\* hash(content[:200])
content_hash(ctx) == ctx.content.head

RECURSIVE DedupKeepLast(_, _)
\* the last item of every content hash, in list order
DedupKeepLast(all_context, seen_content) ==
    IF all_context = << >> THEN << >>
    ELSE IF \E j \in 2..Len(all_context) :
                content_hash(all_context[j]) = content_hash(Head(all_context))
    THEN DedupKeepLast(Tail(all_context), seen_content)
    ELSE << Head(all_context) >> \o DedupKeepLast(Tail(all_context), seen_content)

RECURSIVE Dedup(_, _)
\* the first item of every content hash, in list order
Dedup(all_context, seen_content) ==
    IF all_context = << >> THEN << >>
    ELSE IF content_hash(Head(all_context)) \in seen_content
    THEN Dedup(Tail(all_context), seen_content)
    ELSE << Head(all_context) >>
         \o Dedup(Tail(all_context), seen_content \cup {content_hash(Head(all_context))})

AllContext(vector_context, graph_context, temp_context) ==
    Stamp(vector_context, "vector") \o Stamp(graph_context, "graph") \o Stamp(temp_context, "temp")

\* the node without its single-item early return
fusion_path_no_single_return(all_context, enabled) ==
    IF all_context = << >> THEN "no context"
    ELSE IF enabled THEN "rerank"
    ELSE "sort"

\* the node without its two early returns
fusion_path_no_early_return(all_context, enabled) ==
    IF enabled THEN "rerank" ELSE "sort"

\* which branch of the node handles the merged list
fusion_path(all_context, enabled) ==
    IF all_context = << >> THEN "no context"
    ELSE IF Len(all_context) <= 1 THEN "directly"
    ELSE IF enabled THEN "rerank"
    ELSE "sort"

\* the fallback without its sort
truncate_unsorted(unique_context) == Take(unique_context, vector_search_results)

\* the fallback: sort by existing score, keep the first vector_search_results
sort_and_truncate(unique_context) ==
    Take(SortByScoreDesc(unique_context), vector_search_results)

\* some response, for the branches that make no rerank call
AnyResponse == CHOOSE resp \in RerankResponses : TRUE

\* the "context" the node returns for the merged list all_context when the
\* rerank service, if called, behaves as resp
fused_context(all_context, enabled, resp) ==
    LET unique_context == Dedup(all_context, {})
        path == fusion_path(all_context, enabled)
    IN  CASE path = "no context" -> << >>
          [] path = "directly" -> all_context
          [] path = "rerank" -> rerank(unique_context, vector_search_results,
                                       min_relevance_score, resp)
          [] OTHER -> sort_and_truncate(unique_context)

reranker ==
    /\ Ready("reranker")
    /\ UNCHANGED tempStore
    /\ LET n == "reranker"
           all_context == AllContext(state.vector_context, state.graph_context, state.temp_context)
           steps0 == << "reranker: merging", "reranker: found results" >>
           unique_context == Dedup(all_context, {})
           steps1 == steps0 \o (IF Len(unique_context) < Len(all_context)
                                THEN << "reranker: removed duplicates" >> ELSE << >>)
           done(ctx, steps) == Return(n, [context |-> ctx, steps |-> steps], {"grader"})
           path == fusion_path(all_context, is_rerank_enabled)
           context(resp) == fused_context(all_context, is_rerank_enabled, resp)
       IN  IF path = "no context"
           THEN done(context(AnyResponse), steps0 \o << "reranker: no context" >>)
                /\ UNCHANGED << calls, faults >>
           ELSE IF path = "directly"
           THEN done(context(AnyResponse), steps0 \o << "reranker: using directly" >>)
                /\ UNCHANGED << calls, faults >>
           ELSE IF path = "rerank"
           THEN /\ calls' = [calls EXCEPT !.rerank = @ \cup {n}]
                /\ \E resp \in RerankResponses :
                     /\ Fail(IF resp.ok THEN 0 ELSE 1)
                     /\ done(context(resp), steps1 \o << "reranker: reranked" >>)
           ELSE /\ UNCHANGED << calls, faults >>
                /\ done(context(AnyResponse), steps1 \o << "reranker: rerank disabled" >>)

(***************************************************************************)
(* Final grade, generation and fallback.                                   *)
(***************************************************************************)
\* `if not context` written as `if context is None`: a list is never None
context_is_none(context) == FALSE

\* `if not context`
not_context(context) == context = << >>

\* the texts the grading LLM answers with, and their characters
GraderResponses == {"YES", "No.", "It says yes"}
Chars(text) ==
    CASE text = "YES" -> << "Y", "E", "S" >>
      [] text = "No." -> << "N", "o", "." >>
      [] text = "It says yes" -> << "I", "t", " ", "s", "a", "y", "s", " ", "y", "e", "s" >>
\* str.lower() on the characters that occur
LowerChar(ch) ==
    CASE ch = "Y" -> "y" [] ch = "E" -> "e" [] ch = "S" -> "s"
      [] ch = "N" -> "n" [] ch = "I" -> "i" [] OTHER -> ch
Lower(chars) == [i \in 1..Len(chars) |-> LowerChar(chars[i])]
\* `pattern in chars`
Contains(chars, pattern) ==
    \E i \in 1..(Len(chars) - Len(pattern) + 1) :
        SubSeq(chars, i, i + Len(pattern) - 1) = pattern

\* the match done on the response as it came, without lower()
is_relevant_case_sensitive(llm_response) ==
    Contains(Chars(llm_response), << "y", "e", "s" >>)
\* is_relevant = "yes" in llm_response.lower()
is_relevant(llm_response) ==
    Contains(Lower(Chars(llm_response)), << "y", "e", "s" >>)

\* the grader failing toward the refusal
grade_on_error_insufficient == "insufficient"
\* the grade of the except branch of grader
grade_on_error == "relevant"

grader ==
    /\ Ready("grader")
    /\ UNCHANGED tempStore
    /\ LET n == "grader"
           context == state.context
           done(grade, steps) ==
               LET upd == [grade |-> grade, steps |-> << "grader: evaluating" >> \o steps]
               IN  Return(n, upd, {route_grader(Fresh(upd))})
       IN  IF not_context(context)
           THEN done("insufficient", << "grader: no context" >>) /\ UNCHANGED << calls, faults >>
           ELSE /\ calls' = [calls EXCEPT !.llm = @ \cup {n}]
                /\ \E llm_response \in GraderResponses \cup {"raise"} :
                     CASE llm_response = "raise" ->
                            /\ Fail(1)
                            /\ done(grade_on_error, << "grader: asking", "grader: error",
                                                       "grader: defaulting to relevant" >>)
                       [] is_relevant(llm_response) ->
                            /\ Fail(0)
                            /\ done("relevant",
                                    << "grader: asking", "grader: response " \o llm_response,
                                       "grader: relevant" >>)
                       [] OTHER ->
                            /\ Fail(0)
                            /\ done("insufficient",
                                    << "grader: asking", "grader: response " \o llm_response,
                                       "grader: not relevant" >>)

\* generator without its try block: an exception of llm.chat leaves the node
generator_raises_without_try(response) == response = "raise"
\* whether an outcome of llm.chat leaves generator as an exception: the
\* call and the reading of the response sit in one try block
generator_raises(response) == FALSE

generator ==
    /\ Ready("generator")
    /\ UNCHANGED tempStore
    /\ calls' = [calls EXCEPT !.llm = @ \cup {"generator"}]
    /\ \E response \in LLMTexts \cup {"raise"} :
         IF generator_raises(response)
         THEN /\ Fail(1)
              /\ Raise("generator")
         ELSE IF response = "raise"
         THEN /\ Fail(1)
              /\ Return("generator",
                        [answer |-> GENERATION_ERROR_ANSWER,
                         steps |-> << "generator: generating", "generator: error" >>], {END})
         ELSE /\ Fail(0)
              /\ Return("generator",
                        [answer |-> response,
                         steps |-> << "generator: generating", "generator: generated" >>], {END})

insufficient_handler ==
    /\ Ready("insufficient_handler")
    /\ UNCHANGED << calls, tempStore, faults >>
    /\ Return("insufficient_handler",
              [answer |-> FALLBACK_ANSWER, steps |-> << "fallback: insufficient data" >>],
              {END})

Next ==
    \/ url_intent_detector
    \/ direct_url_summarizer
    \/ router
    \/ url_processor
    \/ vector_retriever
    \/ temp_retriever
    \/ retrieval_evaluator
    \/ graph_retriever
    \/ reranker
    \/ grader
    \/ generator
    \/ insufficient_handler
    \/ Barrier

Spec == Init /\ [][Next]_vars

(***************************************************************************)
(* Fusion on its own: the reranker node started on arbitrary lists.  The   *)
(* vector and ephemeral lists arrive ordered by descending score, as       *)
(* their adapters return them.                                             *)
(***************************************************************************)
FusionScores == {2, 8}
SortedLists(items, n) ==
    {l \in UNION {[1..k -> items] : k \in 0..n} : IsSortedDesc(l)}
VectorLists ==
    SortedLists({Item(c, sc, "vector", "") : c \in Contents, sc \in FusionScores},
                MaxFusionList)
GraphLists ==
    SortedLists({Item(c, sc, "graph", "") : c \in Contents, sc \in FusionScores}, 1)
TempLists ==
    SortedLists({Item(c, sc, "notes.txt", "file") : c \in Contents \cup {LongContent},
                                                    sc \in FusionScores}, 1)

FusionInit ==
    /\ \E v \in VectorLists, g \in GraphLists, t \in TempLists :
         state = [initial_state(<< Tok("word", "hello", FALSE) >>, << >>,
                                Opt(TRUE, << >>), NoneV, Opt(TRUE, << >>))
                  EXCEPT !.vector_context = v, !.graph_context = g, !.temp_context = t]
    /\ tasks = {"reranker"}
    /\ pending = {}
    /\ outputs = << >>
    /\ run = "running"
    /\ history = << >>
    /\ calls = [llm |-> {}, embed |-> {}, rerank |-> {}, fetch |-> {}, query |-> << >>]
    /\ tempStore = {}
    /\ env \in [rerank_enabled : BOOLEAN, keeps_undeclared_keys : {FALSE},
                hash_order : {<< "https://a.com", "www.b.com" >>}]
    /\ faults = 0
    /\ final_answer = [rag |-> "", chat |-> ""]
    /\ delivered = [rag |-> PENDING, chat |-> PENDING]
    /\ ServicesIdle

FusionNext ==
    \/ reranker
    \/ Barrier

FusionSpec == FusionInit /\ [][FusionNext]_vars

(***************************************************************************)
(* The ephemeral adapter on its own: temp_retriever started on any         *)
(* session identifier and any content of the session's collection.         *)
(***************************************************************************)
AdapterChunks ==
    { OldChunk,
      Chunk("mid", Content("g", ""), "notes.txt", "file", 10),
      Chunk("far", Content("b", ""), "https://a.com", "url", FarDist) }

TempInit ==
    /\ \E question \in Questions, session_id \in {NoneV, "s1"} :
         state = initial_state(question, << >>, Opt(TRUE, << >>), session_id,
                               Opt(TRUE, << >>))
    /\ tempStore \in SUBSET AdapterChunks
    /\ tasks = {"temp_retriever"}
    /\ pending = {}
    /\ outputs = << >>
    /\ run = "running"
    /\ history = << >>
    /\ calls = [llm |-> {}, embed |-> {}, rerank |-> {}, fetch |-> {}, query |-> << >>]
    /\ env \in [rerank_enabled : BOOLEAN, keeps_undeclared_keys : {FALSE},
                hash_order : {<< "https://a.com", "www.b.com" >>}]
    /\ faults = 0
    /\ final_answer = [rag |-> "", chat |-> ""]
    /\ delivered = [rag |-> PENDING, chat |-> PENDING]
    /\ ServicesIdle

TempNext ==
    \/ temp_retriever
    \/ Barrier

TempSpec == TempInit /\ [][TempNext]_vars

(***************************************************************************)
(* URL intake on its own: url_processor started on any list of detected    *)
(* URLs, with or without a session identifier.                             *)
(***************************************************************************)
DetectedUrlLists ==
    { << >>, << "https://a.com" >>, << "https://a.com", "www.b.com" >>,
      << "www.b.com", "https://a.com" >> }

IntakeInit ==
    /\ \E detected_urls \in DetectedUrlLists, session_id \in {NoneV, "s1"} :
         state = [initial_state(<< Tok("word", "hello", FALSE) >>, << >>, Opt(TRUE, << >>),
                                session_id, Opt(TRUE, << >>))
                  EXCEPT !.detected_urls = detected_urls]
    /\ tempStore \in SUBSET AdapterChunks
    /\ tasks = {"url_processor"}
    /\ pending = {}
    /\ outputs = << >>
    /\ run = "running"
    /\ history = << >>
    /\ calls = [llm |-> {}, embed |-> {}, rerank |-> {}, fetch |-> {}, query |-> << >>]
    /\ env \in [rerank_enabled : BOOLEAN, keeps_undeclared_keys : {FALSE},
                hash_order : {<< "https://a.com", "www.b.com" >>}]
    /\ faults = 0
    /\ final_answer = [rag |-> "", chat |-> ""]
    /\ delivered = [rag |-> PENDING, chat |-> PENDING]
    /\ ServicesIdle

IntakeNext ==
    \/ url_processor
    \/ Barrier

IntakeSpec == IntakeInit /\ [][IntakeNext]_vars

(***************************************************************************)
(* The URL path of a run on its own: detection, the direct-summary branch  *)
(* and URL intake, under either iteration order that list(set(...)) can    *)
(* have in a process (string hashing is seeded per process).               *)
(***************************************************************************)
HashOrders ==
    { << "https://a.com", "www.b.com" >>, << "www.b.com", "https://a.com" >> }

UrlInit ==
    /\ \E question \in Questions, sess \in SessionCases :
         /\ state = initial_state(question, << >>, Opt(TRUE, << >>), sess.session_id,
                                  sess.temp_files)
         /\ tempStore = sess.store
    /\ tasks = {"url_intent_detector"}
    /\ pending = {}
    /\ outputs = << >>
    /\ run = "running"
    /\ history = << >>
    /\ calls = [llm |-> {}, embed |-> {}, rerank |-> {}, fetch |-> {}, query |-> << >>]
    /\ env \in [rerank_enabled : {FALSE}, keeps_undeclared_keys : {FALSE},
                hash_order : HashOrders]
    /\ faults = 0
    /\ final_answer = [rag |-> "", chat |-> ""]
    /\ delivered = [rag |-> PENDING, chat |-> PENDING]
    /\ ServicesIdle

UrlNext ==
    \/ url_intent_detector
    \/ direct_url_summarizer
    \/ router
    \/ url_processor
    \/ Barrier

UrlSpec == UrlInit /\ [][UrlNext]_vars

\* the pipeline when only the services are looked at: no run in progress
PipelineIdle ==
    /\ state = initial_state(<< Tok("word", "hello", FALSE) >>, << >>,
                             Opt(TRUE, << >>), NoneV, Opt(TRUE, << >>))
    /\ tasks = {}
    /\ pending = {}
    /\ outputs = << >>
    /\ run = "ended"
    /\ history = << >>
    /\ calls = [llm |-> {}, embed |-> {}, rerank |-> {}, fetch |-> {}, query |-> << >>]
    /\ tempStore = {}
    /\ env = [rerank_enabled |-> FALSE, keeps_undeclared_keys |-> FALSE,
              hash_order |-> << "https://a.com", "www.b.com" >>]
    /\ faults = 0
    /\ final_answer = [rag |-> "", chat |-> ""]
    /\ delivered = [rag |-> PENDING, chat |-> PENDING]

(***************************************************************************)
(* The ephemeral store (ingestion/temp_knowledge.py): one Chroma           *)
(* collection per session, named after the session identifier.  Session    *)
(* identifiers are strings chosen by the client, modelled as sequences of  *)
(* characters.                                                             *)
(***************************************************************************)
\* characters of the session identifier that go into the collection name
NAME_LIMIT == 32
Prefix == [i \in 1..NAME_LIMIT |-> "0"]
\* two identifiers of 33 characters that differ in the last one, and a short one
SessionIds == {Prefix \o << "a" >>, Prefix \o << "b" >>, << "c" >>}
StoreDocs == {"d1", "d2"}
\* hours until a chunk expires
DEFAULT_EXPIRE_HOURS == 24
\* hours between two readings of the clock
TickHours == 12
\* the clock stops here
MaxTime == 48
\* chunks the store holds at most
MaxStored == 2
\* metadata without an expire_at entry
NoExpiry == -1
StoredChunk(session_id, doc, expire_at) ==
    [session_id |-> session_id, doc |-> doc, expire_at |-> expire_at]
StoredCount(cols) == Cardinality(UNION {cols[name] : name \in DOMAIN cols})

\* f"temp_{session_id[:32]}"
collection_name(session_id) ==
    << "t", "e", "m", "p", "_" >> \o Take(session_id, NAME_LIMIT)

\* client.get_or_create_collection(name)
get_temp_collection(cols, session_id) ==
    IF collection_name(session_id) \in DOMAIN cols THEN cols
    ELSE cols @@ (collection_name(session_id) :> {})

\* ingest_urls_to_temp / ingest_file_to_temp: collection.add on the
\* session's collection
ingest_to_temp ==
    \E session_id \in SessionIds, doc \in StoreDocs :
        LET cols == get_temp_collection(collections, session_id)
            name == collection_name(session_id)
            expire_at == now + DEFAULT_EXPIRE_HOURS
        IN  /\ StoredCount(collections) < MaxStored
            /\ collections' = [cols EXCEPT ![name] =
                                   @ \cup {StoredChunk(session_id, doc, expire_at)}]
            /\ storeOp' = [op |-> "ingest", session_id |-> session_id,
                           returned |-> {}, removed |-> {}, count |-> 0]
            /\ UNCHANGED << pipeline, orgTable, process, docStore, now >>

\* temp_retriever's has_temp_data and collection.query: with at most
\* TEMP_N_RESULTS chunks in a collection the query returns all of them
query_temp ==
    \E session_id \in SessionIds :
        LET cols == get_temp_collection(collections, session_id)
            name == collection_name(session_id)
        IN  /\ Cardinality(cols[name]) <= TEMP_N_RESULTS
            /\ collections' = cols
            /\ storeOp' = [op |-> "query", session_id |-> session_id,
                           returned |-> cols[name], removed |-> {}, count |-> 0]
            /\ UNCHANGED << pipeline, orgTable, process, docStore, now >>

\* cleanup_session: client.delete_collection(name); a missing collection
\* raises inside the try and nothing is removed
cleanup_session ==
    \E session_id \in SessionIds :
        LET name == collection_name(session_id)
        IN  /\ IF name \in DOMAIN collections
               THEN /\ collections' = [n \in DOMAIN collections \ {name} |-> collections[n]]
                    /\ storeOp' = [op |-> "cleanup", session_id |-> session_id,
                                   returned |-> {}, removed |-> collections[name],
                                   count |-> 0]
               ELSE /\ collections' = collections
                    /\ storeOp' = [op |-> "cleanup", session_id |-> session_id,
                                   returned |-> {}, removed |-> {}, count |-> 0]
            /\ UNCHANGED << pipeline, orgTable, process, docStore, now >>

StoreInit ==
    /\ PipelineIdle
    /\ ServicesIdle

StoreNext ==
    \/ ingest_to_temp
    \/ query_temp
    \/ cleanup_session

StoreSpec == StoreInit /\ [][StoreNext]_vars

(***************************************************************************)
(* Expiry of ephemeral chunks.  Time passes in steps of TickHours.         *)
(***************************************************************************)
Tick ==
    /\ now + TickHours <= MaxTime
    /\ now' = now + TickHours
    /\ UNCHANGED << pipeline, orgTable, process, docStore, collections, storeOp >>

\* the expiry test of cleanup_expired_documents with <= in place of <
is_expired_or_due(chunk, t) == chunk.expire_at # NoExpiry /\ chunk.expire_at <= t
\* `if expire_str:` ... `if expire_at < now:`
is_expired(chunk, t) == chunk.expire_at # NoExpiry /\ chunk.expire_at < t

\* cleanup_expired_documents(session_id): collection.delete of the ids
\* whose expire_at has passed; returns their number
cleanup_expired_documents ==
    \E session_id \in SessionIds :
        LET cols == get_temp_collection(collections, session_id)
            name == collection_name(session_id)
            expired_ids == {c \in cols[name] : is_expired(c, now)}
        IN  /\ collections' = [cols EXCEPT ![name] = @ \ expired_ids]
            /\ storeOp' = [op |-> "expire", session_id |-> session_id,
                           returned |-> {}, removed |-> expired_ids,
                           count |-> Cardinality(expired_ids)]
            /\ UNCHANGED << pipeline, orgTable, process, docStore, now >>

\* a collection written before chunks carried expire_at
LegacyChunk == StoredChunk(<< "c" >>, "d0", NoExpiry)
ExpiryInit ==
    /\ PipelineIdle
    /\ storeOp = NoStoreOp
    /\ now = 0
    /\ organizations = << >>
    /\ orgOp = "none"
    /\ ProcessIdle
    /\ DocsIdle
    /\ collections \in
         {<< >>,
          collection_name(<< "c" >>) :> {LegacyChunk},
          collection_name(<< "c" >>) :>
              {LegacyChunk,
               StoredChunk(<< "c" >>, "d1", DEFAULT_EXPIRE_HOURS),
               StoredChunk(<< "c" >>, "d2", 2 * DEFAULT_EXPIRE_HOURS)}}

ExpiryNext ==
    \/ ingest_to_temp
    \/ Tick
    \/ cleanup_expired_documents

\* cleanup_expired_documents called by whoever wants to: the function on
\* every store content and every clock reading
ExpirySpec == ExpiryInit /\ [][ExpiryNext]_vars

\* the store as the running server drives it: chat runs ingest and query,
\* DELETE /temp/{session_id} cleans a session up, time passes; no route,
\* start-up hook or task of the server calls cleanup_expired_sessions or
\* cleanup_expired_documents
ServerStoreNext ==
    \/ ingest_to_temp
    \/ query_temp
    \/ cleanup_session
    \/ Tick

ServerStoreSpec == StoreInit /\ [][ServerStoreNext]_vars /\ WF_vars(Tick)

(***************************************************************************)
(* Organizations and their graph schemas (crud/organization.py,            *)
(* routers/organizations.py, schema/boi_schema.py).                        *)
(***************************************************************************)
\* rows the organization table may hold
MaxOrgs == 2

NodeTypeSets == {{"A"}}
RelationshipTypeSets == {{}, {"R"}}
\* pattern lists: none, a well-formed triple, a pair, a triple with an
\* unknown target
PatternLists == {<< >>, << << "A", "R", "A" >> >>, << << "A", "R" >> >>,
                 << << "A", "R", "B" >> >>}
GraphSchemas == [node_types : NodeTypeSets, relationship_types : RelationshipTypeSets,
                 patterns : PatternLists]
\* graph_schema = None
NoSchema == [node_types |-> {}, relationship_types |-> {}, patterns |-> << >>,
             isNone |-> TRUE]
\* a graph_schema dict
SchemaOf(g) == [node_types |-> g.node_types, relationship_types |-> g.relationship_types,
                patterns |-> g.patterns, isNone |-> FALSE]
SchemaValues == {SchemaOf(g) : g \in GraphSchemas}
\* a field of an update request: left out, or set to a value
NotSet == [set |-> FALSE, value |-> NoSchema]
SetTo(v) == [set |-> TRUE, value |-> v]

\* validate_schema: every pattern has three parts, source and target in
\* node_types and the relationship in relationship_types
validate_schema(schema) ==
    \A i \in 1..Len(schema.patterns) :
        LET pattern == schema.patterns[i]
        IN  /\ Len(pattern) = 3
            /\ pattern[1] \in schema.node_types
            /\ pattern[2] \in schema.relationship_types
            /\ pattern[3] \in schema.node_types

\* the guard of create_organization: a schema is validated only when the
\* organization is created with the graph enabled
create_rejected(graphrag_enabled, graph_schema) ==
    /\ ~graph_schema.isNone
    /\ graphrag_enabled
    /\ ~validate_schema(graph_schema)

create_organization ==
    \E graphrag_enabled \in BOOLEAN, graph_schema \in SchemaValues \cup {NoSchema} :
        /\ Cardinality(DOMAIN organizations) < MaxOrgs
        /\ IF create_rejected(graphrag_enabled, graph_schema)
           THEN /\ orgOp' = "rejected"
                /\ UNCHANGED organizations
           ELSE /\ organizations' = organizations @@
                      (Cardinality(DOMAIN organizations) + 1 :>
                          [graphrag_enabled |-> graphrag_enabled,
                           graph_schema |-> graph_schema])
                /\ orgOp' = "stored"
        /\ UNCHANGED << pipeline, ephemeral, process, docStore >>

\* the guard of update_organization: a schema in the update is validated
\* only when the graph is enabled by the update or, failing that, by the row
update_rejected(db_org, enabled, schema) ==
    /\ schema.set
    /\ ~schema.value.isNone
    /\ (IF enabled.set THEN enabled.value ELSE db_org.graphrag_enabled)
    /\ ~validate_schema(schema.value)

\* the row after setattr of every field of the update
updated_row(db_org, enabled, schema) ==
    [graphrag_enabled |-> IF enabled.set THEN enabled.value ELSE db_org.graphrag_enabled,
     graph_schema |-> IF schema.set THEN schema.value ELSE db_org.graph_schema]

\* update_organization(db, org_id, org_data) with the fields of org_data
update(org_id, enabled, schema) ==
    IF org_id \notin DOMAIN organizations
    THEN orgOp' = "not found" /\ UNCHANGED organizations
    ELSE IF update_rejected(organizations[org_id], enabled, schema)
    THEN orgOp' = "rejected" /\ UNCHANGED organizations
    ELSE /\ organizations' = [organizations EXCEPT
                                  ![org_id] = updated_row(@, enabled, schema)]
         /\ orgOp' = "stored"

update_organization ==
    \E org_id \in 1..MaxOrgs,
       enabled \in {[set |-> FALSE, value |-> FALSE], SetTo(TRUE), SetTo(FALSE)},
       schema \in {NotSet, SetTo(NoSchema)} \cup {SetTo(g) : g \in SchemaValues} :
        /\ update(org_id, enabled, schema)
        /\ UNCHANGED << pipeline, ephemeral, process, docStore >>

\* PUT /{org_id}/schema: update_organization with the schema alone
update_org_schema ==
    \E org_id \in 1..MaxOrgs, g \in SchemaValues :
        /\ update(org_id, NotSet, SetTo(g))
        /\ UNCHANGED << pipeline, ephemeral, process, docStore >>

OrgInit ==
    /\ PipelineIdle
    /\ ServicesIdle

OrgNext ==
    \/ create_organization
    \/ update_organization
    \/ update_org_schema

OrgSpec == OrgInit /\ [][OrgNext]_vars

(***************************************************************************)
(* The lazily created singletons (get_embeddings, get_rerank and the       *)
(* getters of the same shape).  Node functions are plain functions that    *)
(* the asynchronous runner executes on worker threads; a get_x() call is   *)
(* a test of the global, a constructor call and an assignment, with no     *)
(* lock around them.                                                       *)
(***************************************************************************)
\* `if _x_instance is None:` the thread reads the global; it returns the
\* instance it finds, or goes on to construct one
get_begin(t, name) ==
    /\ getter[t].pc = "idle"
    /\ IF singleton[name] # 0
       THEN /\ handedOut' = [handedOut EXCEPT ![name] = @ \cup {singleton[name]}]
            /\ UNCHANGED getter
       ELSE /\ getter' = [getter EXCEPT ![t] = [pc |-> "construct", name |-> name, mine |-> 0]]
            /\ UNCHANGED handedOut
    /\ UNCHANGED << singleton, constructions >>
    /\ UNCHANGED << pipeline, ephemeral, orgTable, docStore >>

\* `X()`: the constructor runs and yields a new instance
construct(t) ==
    /\ getter[t].pc = "construct"
    /\ constructions' = [constructions EXCEPT ![getter[t].name] = @ + 1]
    /\ getter' = [getter EXCEPT ![t].pc = "assign",
                                ![t].mine = constructions[getter[t].name] + 1]
    /\ UNCHANGED << singleton, handedOut >>
    /\ UNCHANGED << pipeline, ephemeral, orgTable, docStore >>

\* `_x_instance = ...; return _x_instance`
assign_and_return(t) ==
    /\ getter[t].pc = "assign"
    /\ singleton' = [singleton EXCEPT ![getter[t].name] = getter[t].mine]
    /\ handedOut' = [handedOut EXCEPT ![getter[t].name] = @ \cup {getter[t].mine}]
    /\ getter' = [getter EXCEPT ![t] = NotCalling]
    /\ UNCHANGED constructions
    /\ UNCHANGED << pipeline, ephemeral, orgTable, docStore >>

SingletonInit ==
    /\ PipelineIdle
    /\ ServicesIdle

SingletonNext ==
    \/ \E t \in Threads, name \in Singletons : get_begin(t, name)
    \/ \E t \in Threads : construct(t)
    \/ \E t \in Threads : assign_and_return(t)

SingletonSpec == SingletonInit /\ [][SingletonNext]_vars

(***************************************************************************)
(* Documents of an organization (routers/documents.py).  The upload route, *)
(* the background task run_ingestion and the delete route are coroutines   *)
(* of one event loop; none of them awaits anything that suspends, so each  *)
(* runs from start to end with no other handler in between.                *)
(***************************************************************************)
\* upload_document: create_document (status PENDING) and queue run_ingestion
upload_document ==
    \E d \in 1..MaxDocs :
        /\ docRows[d].status = "none"
        /\ docRows' = [docRows EXCEPT ![d] = DocRow("PENDING", {}, "queued")]
        /\ UNCHANGED orgChunks
        /\ UNCHANGED << pipeline, ephemeral, orgTable, process >>

\* the chunk ids of a document split into k chunks
ChunkIds(k) == 1..k

\* run_ingestion: without a row it returns; otherwise ingest_document
\* raises before collection.add, or adds the chunks and set_document_ids
\* records their ids, or the chunks are added and recording the ids raises
run_ingestion ==
    \E d \in 1..MaxDocs :
        /\ docRows[d].task = "queued"
        /\ IF docRows[d].status = "deleted"
           THEN /\ docRows' = [docRows EXCEPT ![d].task = "finished"]
                /\ UNCHANGED orgChunks
           ELSE \E outcome \in {"ingest raises", "ingested", "ids not recorded"},
                   k \in 1..MaxDocChunks :
                  CASE outcome = "ingest raises" ->
                         /\ docRows' = [docRows EXCEPT ![d] = DocRow("FAILED", {}, "finished")]
                         /\ UNCHANGED orgChunks
                    [] outcome = "ingested" ->
                         /\ orgChunks' = [orgChunks EXCEPT ![d] = @ \cup ChunkIds(k)]
                         /\ docRows' = [docRows EXCEPT
                                           ![d] = DocRow("INGESTED", ChunkIds(k), "finished")]
                    [] OTHER ->
                         /\ orgChunks' = [orgChunks EXCEPT ![d] = @ \cup ChunkIds(k)]
                         /\ docRows' = [docRows EXCEPT ![d] = DocRow("FAILED", {}, "finished")]
        /\ UNCHANGED << pipeline, ephemeral, orgTable, process >>

\* delete_from_chroma: nothing to do without recorded ids; a failure of
\* collection.delete is logged and swallowed
delete_from_chroma(chunks, chroma_ids, deleteOk) ==
    IF chroma_ids = {} THEN chunks
    ELSE IF deleteOk THEN chunks \ chroma_ids
    ELSE chunks

\* delete_document_by_id: 404 without a row; otherwise delete_document_data
\* and then delete_document removes the row
delete_document_by_id ==
    \E d \in 1..MaxDocs, deleteOk \in BOOLEAN :
        /\ docRows[d].status \notin {"none", "deleted"}
        /\ orgChunks' = [orgChunks EXCEPT
                            ![d] = delete_from_chroma(@, docRows[d].chroma_ids, deleteOk)]
        /\ docRows' = [docRows EXCEPT ![d].status = "deleted", ![d].chroma_ids = {}]
        /\ UNCHANGED << pipeline, ephemeral, orgTable, process >>

DocInit ==
    /\ PipelineIdle
    /\ ServicesIdle

DocNext ==
    \/ upload_document
    \/ run_ingestion
    \/ delete_document_by_id

DocSpec == DocInit /\ [][DocNext]_vars

(***************************************************************************)
(* Properties of a run.                                                    *)
(***************************************************************************)
\* node n has run and returned in this run
Executed(n) == n \in DOMAIN outputs
\* the request names specific files
Pinned == Truthy(state.file_ids)

\* C1: when the request carries a non-empty file_ids list, the graph
\* adapter node is never executed in the run.
C1_PinnedRunSkipsGraph == Pinned => ~Executed("graph_retriever")

\* C2: the router sets retrieval_mode to "vector_only" exactly when
\* file_ids is a non-empty list and to "parallel" when file_ids is empty or
\* None; it never sets any other value.
C2_RouterMode ==
    Executed("router") =>
        LET mode == outputs["router"].upd.retrieval_mode
            file_ids == state.file_ids
        IN  /\ mode \in {"vector_only", "parallel"}
            /\ mode = "vector_only" <=> (~file_ids.isNone /\ file_ids.ids # << >>)
            /\ mode = "parallel" <=> (file_ids.isNone \/ file_ids.ids = << >>)
\* the router has set "parallel" for an empty (not None) file_ids list
C2_Witness ==
    /\ Executed("router")
    /\ ~state.file_ids.isNone
    /\ state.file_ids.ids = << >>
    /\ outputs["router"].upd.retrieval_mode = "parallel"
    /\ state.retrieval_mode = "parallel"

\* the run is over and its last superstep has been applied
Ended == run = "ended"
\* the three adapters have returned and none of them has produced an item
NoRetrievedItems ==
    /\ Executed("vector_retriever")
    /\ Executed("graph_retriever")
    /\ state.vector_context = << >>
    /\ state.temp_context = << >>
    /\ state.graph_context = << >>

\* C3: in every run with a non-empty pinned file-ID set and a populated
\* vector collection, every item of the final context has origin vector,
\* the list has at most the configured maximum of items and it is sorted by
\* descending score.
C3_PinnedContextIsVectorOnly ==
    (Ended /\ Pinned /\ Executed("reranker") /\ state.vector_context # << >>) =>
        /\ \A i \in 1..Len(state.context) : state.context[i].retrieval_source = "vector"
        /\ Len(state.context) <= vector_search_results
        /\ IsSortedDesc(state.context)

\* a pinned request without a session ends with a graph-origin item in its
\* final context
C3_GraphItemInPinnedContext ==
    /\ Ended
    /\ Pinned
    /\ state.session_id = NoneV
    /\ state.vector_context # << >>
    /\ \E i \in 1..Len(state.context) : state.context[i].retrieval_source = "graph"

\* C4: in every run where the vector, ephemeral and graph adapters all
\* return zero items and rerank is disabled, the run ends with grade
\* "insufficient" and the fixed fallback answer, and neither the generator
\* node nor a generation LLM call is executed.
C4_EmptyRetrievalEndsInFallback ==
    (NoRetrievedItems /\ ~is_rerank_enabled) =>
        /\ ~Executed("generator")
        /\ "generator" \notin calls.llm
        /\ "generator" \notin tasks
        /\ Ended => /\ state.grade = "insufficient"
                    /\ state.answer = FALLBACK_ANSWER
                    /\ Executed("insufficient_handler")
\* such a run has ended, with no backend failure in it
C4_Witness ==
    /\ Ended
    /\ NoRetrievedItems
    /\ ~is_rerank_enabled
    /\ faults = 0
    /\ state.answer = FALLBACK_ANSWER

\* C5: whenever a run terminates through the fallback path, the answer
\* delivered to the caller (the string run_rag_query returns and the
\* text-content of the /api/chat stream) is the fixed fallback message.
C5_FallbackIsDelivered ==
    (Ended /\ Executed("insufficient_handler")) =>
        /\ delivered.rag = FALLBACK_ANSWER
        /\ delivered.chat = FALLBACK_ANSWER

\* the question holds a URL, no temp file is uploaded and the intent LLM
\* has answered DIRECT_SUMMARY
DirectIntent ==
    /\ FindUrls(state.question) # << >>
    /\ ~Truthy(state.temp_files)
    /\ Executed("url_intent_detector")
    /\ "url_intent_detector" \in calls.llm
    /\ outputs["url_intent_detector"].upd.url_summarize_direct
RetrievalNodes == {"router", "url_processor", "vector_retriever", "temp_retriever",
                   "graph_retriever", "retrieval_evaluator", "reranker", "grader",
                   "generator"}
\* no node of the retrieval branch has run, is running or is scheduled
BypassesRetrieval ==
    /\ \A n \in RetrievalNodes : ~Executed(n) /\ n \notin tasks /\ n \notin pending
    /\ \A i \in 1..Len(history) : history[i] \cap RetrievalNodes = {}
OneUrlDirectItem ==
    /\ Len(state.context) = 1
    /\ state.context[1].source_type = "url_direct"

\* C6 as stated: on the direct-summary path the run executes none of the
\* retrieval nodes and ends with a final context of exactly one item
\* tagged url_direct.
C6_DirectSummaryOneItem ==
    DirectIntent => /\ BypassesRetrieval
                    /\ Ended => OneUrlDirectItem

\* C6: on the direct-summary path the run executes none of the retrieval
\* nodes; it ends with a final context of exactly one item tagged
\* url_direct when the page is fetched and summarised, and with an empty
\* final context and an error answer when the fetch returns nothing or
\* the summary LLM call raises.
C6_DirectSummaryBypassesRetrieval ==
    DirectIntent =>
        /\ BypassesRetrieval
        /\ Ended =>
             /\ Executed("direct_url_summarizer")
             /\ IF state.answer \in {FETCH_FAILED_ANSWER, URL_ERROR_ANSWER}
                THEN state.context = << >>
                ELSE /\ OneUrlDirectItem
                     /\ state.context[1].source = state.detected_urls[1]
                     /\ state.answer \in LLMTexts
\* a direct-summary run has ended with its single url_direct item
C6_Witness ==
    /\ DirectIntent
    /\ Ended
    /\ OneUrlDirectItem
    /\ delivered.chat \in LLMTexts

\* C7: no backend failure in any stage aborts a pipeline run; the node
\* using the failing service returns a best-effort result and the run
\* continues to a terminal node.
C7_NoFailureAbortsRun == run # "aborted" /\ delivered.rag # RAISED

\* what the pre-check saw: the channels are written before it runs only
PrecheckSawNothing ==
    /\ Executed("retrieval_evaluator")
    /\ state.vector_context = << >>
    /\ state.temp_context = << >>

\* C8: if the sufficiency pre-check sees an empty vector_context and an
\* empty temp_context, it sets retrieval_status to insufficient and the
\* run proceeds to graph_retriever, without an LLM call in the pre-check.
C8_EmptyPrecheckGoesToGraph ==
    PrecheckSawNothing =>
        /\ outputs["retrieval_evaluator"].upd.retrieval_status = "insufficient"
        /\ outputs["retrieval_evaluator"].next = {"graph_retriever"}
        /\ "retrieval_evaluator" \notin calls.llm
        /\ \A i \in 1..Len(history) :
             "retrieval_evaluator" \in history[i] =>
                 IF i < Len(history) THEN history[i + 1] = {"graph_retriever"}
                 ELSE tasks \cup pending = {"graph_retriever"}
\* the graph adapter has run after a pre-check that saw nothing
C8_Witness ==
    /\ PrecheckSawNothing
    /\ Executed("graph_retriever")
    /\ "retrieval_evaluator" \notin calls.llm

\* C9: the final grader, given an empty final context list, always returns
\* grade "insufficient" and makes no LLM call.
C9_GraderOnEmptyContext ==
    (Executed("grader") /\ state.context = << >>) =>
        /\ outputs["grader"].upd.grade = "insufficient"
        /\ "grader" \notin calls.llm
\* the grader has graded an empty context
C9_Witness ==
    /\ Executed("grader")
    /\ state.context = << >>
    /\ state.grade = "insufficient"

\* the three lists the fusion node read were all empty
FusionSawNothing ==
    /\ Executed("reranker")
    /\ state.vector_context = << >>
    /\ state.graph_context = << >>
    /\ state.temp_context = << >>

\* C10: fusion on empty vector, graph and ephemeral lists returns an empty
\* context list and never invokes the rerank capability, whether or not
\* rerank is enabled.
C10_FusionOnEmptyInput ==
    FusionSawNothing =>
        /\ outputs["reranker"].upd.context = << >>
        /\ "reranker" \notin calls.rerank
\* fusion has run on empty lists with rerank enabled
C10_Witness ==
    /\ FusionSawNothing
    /\ is_rerank_enabled
    /\ outputs["reranker"].upd.context = << >>

\* the merged list the fusion node read
FusionInput == AllContext(state.vector_context, state.graph_context, state.temp_context)

\* C11: fusion on input whose three lists together hold exactly one item
\* returns a context list containing that item unchanged (but for its
\* origin stamp) and never invokes the rerank capability, whether or not
\* rerank is enabled and whatever the item's score.
C11_FusionOnSingleItem ==
    (Executed("reranker") /\ Len(FusionInput) = 1) =>
        LET given == (state.vector_context \o state.graph_context \o state.temp_context)[1]
            context == outputs["reranker"].upd.context
        IN  /\ Len(context) = 1
            /\ context[1] = [given EXCEPT !.retrieval_source = FusionInput[1].retrieval_source]
            /\ "reranker" \notin calls.rerank
\* fusion has passed on a single item scored below the relevance
\* threshold, with rerank enabled
C11_Witness ==
    /\ Executed("reranker")
    /\ Len(FusionInput) = 1
    /\ is_rerank_enabled
    /\ Score(FusionInput[1]) < min_relevance_score
    /\ Len(state.context) = 1

\* the items of a fused list that carry the origin stamp tag
ByOrigin(context, tag) == SelectSeq(context, LAMBDA x : x.retrieval_source = tag)
\* a second fusion pass over a fused list, each item handed back through
\* the list of its origin
FusedAgainByOrigin(context, resp) ==
    fused_context(AllContext(ByOrigin(context, "vector"), ByOrigin(context, "graph"),
                             ByOrigin(context, "temp")),
                  is_rerank_enabled, resp)
\* a second fusion pass over a fused list handed back as one list
FusedAgainAsOneList(context, resp) ==
    fused_context(AllContext(context, << >>, << >>), is_rerank_enabled, resp)

\* C12: fusion is idempotent: feeding the context list produced by one
\* fusion pass back into fusion (same question, same configuration, same
\* behaviour of the rerank service) yields the same list, with the same
\* items in the same order; handed back as one list, the items differ at
\* most in the origin stamp the second pass writes.
C12_FusionIsIdempotent ==
    Executed("reranker") =>
        LET context == outputs["reranker"].upd.context
        IN  \A resp \in RerankResponses :
              context = fused_context(FusionInput, is_rerank_enabled, resp) =>
                  /\ FusedAgainByOrigin(context, resp) = context
                  /\ Stamp(FusedAgainAsOneList(context, resp), "") = Stamp(context, "")
\* a pass that removed a duplicate, reranked and kept two items of
\* different origins
C12_Witness ==
    /\ Executed("reranker")
    /\ "reranker" \in calls.rerank
    /\ Len(Dedup(FusionInput, {})) < Len(FusionInput)
    /\ Len(outputs["reranker"].upd.context) = 2
    /\ outputs["reranker"].upd.context[1].reranked
    /\ outputs["reranker"].upd.context[1].retrieval_source
         # outputs["reranker"].upd.context[2].retrieval_source

\* the generator is scheduled, running or done
ReachesGenerator == "generator" \in tasks \cup pending \cup DOMAIN outputs

\* C13: in every run that reaches the generator, the context list passed
\* to generation is ordered by non-increasing relevance score and holds at
\* most vector_search_results items, on every fusion path.
C13_GenerationContextSortedAndBounded ==
    ReachesGenerator =>
        /\ IsSortedDesc(state.context)
        /\ Len(state.context) <= vector_search_results
        /\ state.context = outputs["reranker"].upd.context
\* the generator has run on a context that fusion sorted and truncated
C13_Witness ==
    /\ Executed("generator")
    /\ Len(Dedup(FusionInput, {})) > vector_search_results
    /\ Len(state.context) = vector_search_results
    /\ Score(state.context[1]) > Score(state.context[2])
    /\ state.context[1].retrieval_source # "vector"

NoEmptyContent(items) == \A i \in 1..Len(items) : items[i].content # EmptyContent

StepsOf(n) == Range(outputs[n].upd.steps)
UrlIntakeStored == Executed("url_processor") /\ "url: cleaned" \in StepsOf("url_processor")
TempAdapterReturned(source_type) ==
    \E i \in 1..Len(outputs["temp_retriever"].upd.temp_context) :
        outputs["temp_retriever"].upd.temp_context[i].source_type = source_type

\* C15: in every run where URLs were detected and a session id is present,
\* URL intake finishes writing the fetched chunks before the ephemeral
\* adapter checks and queries the collection, so with no backend failing
\* the adapter returns the content fetched in this turn, whichever of the
\* two nodes is scheduled first.
C15_FetchedContentQueryableSameTurn ==
    (/\ state.detected_urls # << >>
     /\ state.session_id # NoneV
     /\ faults = 0
     /\ UrlIntakeStored
     /\ Executed("temp_retriever"))
        => TempAdapterReturned("url")
\* URL intake stored this turn's chunks, no backend failed, and the
\* ephemeral adapter of the same superstep reported an empty collection
C15_AdapterReadBeforeIntakeWrote ==
    /\ faults = 0
    /\ UrlIntakeStored
    /\ Executed("temp_retriever")
    /\ "temp: no data" \in StepsOf("temp_retriever")

\* C16: chunks ingested under one session identifier are stored only in
\* that session's collection, and a retrieval or deletion under a different
\* session identifier never returns or removes them.
C16_SessionIsolation ==
    /\ \A name \in DOMAIN collections :
         \A c \in collections[name] : name = collection_name(c.session_id)
    /\ \A c \in storeOp.returned \cup storeOp.removed : c.session_id = storeOp.session_id
\* a query under one session identifier returned a chunk that another
\* session identifier ingested
C16_QueryReturnsForeignChunk ==
    /\ storeOp.op = "query"
    /\ \E c \in storeOp.returned : c.session_id # storeOp.session_id

\* the schema invariant as the specification words it
SchemaTriplesDeclared(schema) ==
    \A i \in 1..Len(schema.patterns) :
        /\ Len(schema.patterns[i]) = 3
        /\ {schema.patterns[i][1], schema.patterns[i][3]} \subseteq schema.node_types
        /\ schema.patterns[i][2] \in schema.relationship_types

\* C17: after any sequence of create_organization, update_organization and
\* update_org_schema calls, every graph schema stored on an organization
\* has only patterns that are triples with source and target in node_types
\* and the relationship in relationship_types.
C17_StoredSchemasAreValid ==
    \A org_id \in DOMAIN organizations :
        ~organizations[org_id].graph_schema.isNone
            => SchemaTriplesDeclared(organizations[org_id].graph_schema)
\* an organization with the graph enabled holds a schema with a pattern
\* that is no declared triple
C17_EnabledOrgHoldsInvalidSchema ==
    \E org_id \in DOMAIN organizations :
        /\ organizations[org_id].graphrag_enabled
        /\ ~organizations[org_id].graph_schema.isNone
        /\ ~SchemaTriplesDeclared(organizations[org_id].graph_schema)

\* the www.-form matches of the question, as written in it
BareWwwUrls == {state.question[i].text :
                   i \in {j \in 1..Len(state.question) : state.question[j].kind = "www"}}
UrlProducers == {"url_intent_detector", "router"}
NormalisedOrder == << "https://a.com", "https://www.b.com" >>

\* C18: URL extraction prefixes every www.-form URL with https://, in the
\* URL list of url_intent_detector, in that of the router and in that of
\* extract_urls_from_text alike: no list holds a www.-form URL as written.
C18_WwwUrlsGetScheme ==
    /\ Range(extract_urls_from_text(NormalisedOrder, state.question)) \cap BareWwwUrls = {}
    /\ \A n \in UrlProducers :
         (Executed(n) /\ "detected_urls" \in DOMAIN outputs[n].upd)
            => Range(outputs[n].upd.detected_urls) \cap BareWwwUrls = {}
\* the intent classifier and the router have both returned a URL list
\* holding the www.-form URL without a scheme, while
\* extract_urls_from_text gives it with the scheme
C18_PipelineKeepsBareWww ==
    /\ "https://www.b.com" \in Range(extract_urls_from_text(NormalisedOrder, state.question))
    /\ \A n \in UrlProducers :
         /\ Executed(n)
         /\ "detected_urls" \in DOMAIN outputs[n].upd
         /\ "www.b.com" \in Range(outputs[n].upd.detected_urls)

\* node n raised: the run was aborted in a superstep of n that n did not
\* return from
Raised(n) == run = "aborted" /\ n \in history[Len(history)] /\ ~Executed(n)
GraphFailureSteps == {"graph: not available", "graph: query error", "graph: no relevant data"}

\* C19: the graph adapter never raises: when the Cypher chain is
\* unavailable, when chain.invoke raises, or when the chain returns no
\* answer text, graph_retriever returns no graph_context items plus a trace
\* step, and the run continues to the reranker.
C19_GraphAdapterNeverRaises ==
    /\ ~Raised("graph_retriever")
    /\ Executed("graph_retriever") =>
         LET out == outputs["graph_retriever"]
         IN  /\ out.next = {"reranker"}
             /\ Len(out.upd.steps) >= 2
             /\ (Range(out.upd.steps) \cap GraphFailureSteps # {}
                    => "graph_context" \notin DOMAIN out.upd)
             /\ (run = "ended" => Executed("reranker"))
\* chain.invoke raised inside graph_retriever, the node returned a trace
\* step and no item, and the reranker ran after it
C19_Witness ==
    /\ Executed("graph_retriever")
    /\ "graph: query error" \in StepsOf("graph_retriever")
    /\ "graph_context" \notin DOMAIN outputs["graph_retriever"].upd
    /\ state.graph_context = << >>
    /\ Executed("reranker")

\* C20: if the generation LLM call fails, the generator node does not
\* raise: it returns an answer string that embeds the error detail, and the
\* run terminates normally with that answer.
C20_GeneratorFailureBecomesAnswer ==
    /\ ~Raised("generator")
    /\ (Executed("generator") /\ "generator: error" \in StepsOf("generator")) =>
         /\ outputs["generator"].upd.answer = GENERATION_ERROR_ANSWER
         /\ outputs["generator"].next = {END}
         /\ run # "aborted"
         /\ (run = "ended" => state.answer = GENERATION_ERROR_ANSWER)
\* the LLM call of the generator failed and the run has ended with the
\* answer that reports the error
C20_Witness ==
    /\ Executed("generator")
    /\ "generator: error" \in StepsOf("generator")
    /\ run = "ended"
    /\ state.answer = GENERATION_ERROR_ANSWER

\* every chunk an ingestion can store while the clock runs
PossibleChunks ==
    {StoredChunk(session_id, doc, t + DEFAULT_EXPIRE_HOURS) :
        session_id \in SessionIds, doc \in StoreDocs,
        t \in {h \in 0..MaxTime : h % TickHours = 0}}
Stored(chunk) == \E name \in DOMAIN collections : chunk \in collections[name]

\* C21: every chunk stored in an ephemeral collection is eventually deleted
\* after its expiration timestamp has passed, by a time-based sweep that
\* no pipeline run or client request has to trigger.
C21_ExpiredChunksAreSwept ==
    \A chunk \in PossibleChunks :
        (Stored(chunk) /\ is_expired(chunk, now)) ~> ~Stored(chunk)
\* the clock has reached its last reading and a chunk whose expire_at has
\* passed is still in its collection
C21_ExpiredChunkStillStored ==
    /\ now = MaxTime
    /\ \E chunk \in PossibleChunks : Stored(chunk) /\ is_expired(chunk, now)

\* the chunks of the collection that a session identifier names
ChunksOf(cols, session_id) ==
    IF collection_name(session_id) \in DOMAIN cols
    THEN cols[collection_name(session_id)] ELSE {}
\* the chunks of a set whose expire_at is earlier than t
Overdue(chunks, t) == {c \in chunks : c.expire_at # NoExpiry /\ c.expire_at < t}
\* this step is a call of cleanup_expired_documents
ExpireStep == storeOp'.op = "expire" /\ now' = now
ExpireStepIsExact ==
    ExpireStep =>
        LET session_id == storeOp'.session_id
            before == ChunksOf(collections, session_id)
        IN  /\ storeOp'.removed = Overdue(before, now)
            /\ storeOp'.count = Cardinality(Overdue(before, now))
            /\ ChunksOf(collections', session_id) = before \ Overdue(before, now)
            /\ \A name \in DOMAIN collections \ {collection_name(session_id)} :
                 name \in DOMAIN collections' /\ collections'[name] = collections[name]

\* C22: cleanup_expired_documents(session) deletes exactly the chunks of
\* that session's collection whose expire_at is earlier than the current
\* time and returns their count; chunks with a future expire_at or with no
\* expire_at stay in the collection unchanged.
C22_ExpiredDocumentsFrame == [][ExpireStepIsExact]_vars
\* a call has deleted one overdue chunk of a collection and left behind a
\* chunk that is not yet due and a chunk without expire_at
C22_Witness ==
    /\ storeOp.op = "expire"
    /\ storeOp.count = 1
    /\ \E c \in storeOp.removed : c.expire_at < now
    /\ \E c \in ChunksOf(collections, storeOp.session_id) : c.expire_at = NoExpiry
    /\ \E c \in ChunksOf(collections, storeOp.session_id) : c.expire_at >= now

PrecheckSaidInsufficient ==
    /\ Executed("retrieval_evaluator")
    /\ outputs["retrieval_evaluator"].upd.retrieval_status = "insufficient"
PrimaryResultsEmpty == state.vector_context = << >> /\ state.temp_context = << >>

\* C23: the graph adapter runs in a run only if retrieval mode is parallel
\* and the pre-check verdict was insufficient, or the vector and ephemeral
\* results were both empty; in every other run graph_retriever is not
\* executed.
C23_GraphOnlyWhenEscalated ==
    Executed("graph_retriever") =>
        \/ state.retrieval_mode = "parallel" /\ PrecheckSaidInsufficient
        \/ PrimaryResultsEmpty
\* the graph adapter has run in a run that is not in parallel mode and
\* whose vector results were not empty
C23_GraphRanOutsideParallelMode ==
    /\ Executed("graph_retriever")
    /\ state.retrieval_mode # "parallel"
    /\ state.vector_context # << >>

\* the run went into the RAG branch, and it is over
RagBranch == Executed("router")
RunOver == run \in {"ended", "aborted"}
GraderGrade == outputs["grader"].upd.grade
\* the grading LLM's answer holds "yes" in some mix of cases
SaidYes(response) ==
    \E i \in 1..(Len(Chars(response)) - 2) :
        /\ Chars(response)[i] \in {"y", "Y"}
        /\ Chars(response)[i + 1] \in {"e", "E"}
        /\ Chars(response)[i + 2] \in {"s", "S"}
\* the grade is relevant exactly for a non-empty context with a "yes"
\* answer or a failed grading call
GradeMatchesResponse ==
    Executed("grader") =>
        (GraderGrade = "relevant" <=>
            /\ state.context # << >>
            /\ \/ "grader: error" \in StepsOf("grader")
               \/ \E r \in GraderResponses :
                    ("grader: response " \o r) \in StepsOf("grader") /\ SaidYes(r))
\* the generator runs only on a relevant grade, the fallback only on
\* another grade, never both
GradeDecidesTerminal ==
    /\ Executed("generator") => (RagBranch => Executed("grader") /\ GraderGrade = "relevant")
    /\ Executed("insufficient_handler") => (Executed("grader") /\ GraderGrade # "relevant")
    /\ ~(Executed("generator") /\ Executed("insufficient_handler"))
    /\ (run = "ended" /\ RagBranch) =>
           (Executed("generator") \/ Executed("insufficient_handler"))

\* C24: in every RAG-branch run exactly one of generator and
\* insufficient_handler executes: generator if and only if the grade is
\* "relevant", which the grader sets if and only if the context is
\* non-empty and the LLM response contains "yes" case-insensitively or the
\* grading call failed; otherwise insufficient_handler executes.
C24_GradeSelectsExactlyOneTerminal ==
    /\ GradeMatchesResponse
    /\ GradeDecidesTerminal
    /\ (RunOver /\ RagBranch) =>
           (Executed("generator") \/ Executed("insufficient_handler"))
\* a RAG-branch run is over and neither the generator nor the fallback
\* node has executed
C24_RunOverWithoutTerminalNode ==
    /\ RunOver
    /\ RagBranch
    /\ ~Executed("generator")
    /\ ~Executed("insufficient_handler")

PrecheckFailed == "evaluator: error, defaulting to graph" \in StepsOf("retrieval_evaluator")

\* C25: if the pre-check LLM call raises, with non-empty vector or
\* ephemeral results, retrieval_evaluator sets retrieval_status to
\* insufficient, so the run escalates to graph_retriever rather than
\* skipping it.
C25_PrecheckErrorEscalates ==
    (Executed("retrieval_evaluator") /\ PrecheckFailed) =>
        /\ ~PrimaryResultsEmpty
        /\ outputs["retrieval_evaluator"].upd.retrieval_status = "insufficient"
        /\ outputs["retrieval_evaluator"].next = {"graph_retriever"}
        /\ (Executed("reranker") => Executed("graph_retriever"))
\* the pre-check call failed on non-empty results and the graph adapter
\* has run after it
C25_Witness ==
    /\ Executed("retrieval_evaluator")
    /\ PrecheckFailed
    /\ state.vector_context # << >>
    /\ Executed("graph_retriever")

GraderFailed == "grader: error" \in StepsOf("grader")

\* C26: if the final-grade LLM call raises on a non-empty context, the
\* grader sets grade to "relevant", so the run proceeds to the generator
\* and never to the fallback.
C26_GraderErrorProceedsToGenerator ==
    (Executed("grader") /\ GraderFailed) =>
        /\ state.context # << >>
        /\ GraderGrade = "relevant"
        /\ outputs["grader"].next = {"generator"}
        /\ ~Executed("insufficient_handler")
        /\ (run = "ended" => Executed("generator"))
\* the grading call failed on a non-empty context and the generator has
\* run after it
C26_Witness ==
    /\ Executed("grader")
    /\ GraderFailed
    /\ state.context # << >>
    /\ Executed("generator")

IntentBypass == outputs["url_intent_detector"].upd.url_summarize_direct
IntentAskedLLM == "url_intent_detector" \in calls.llm
IntentSaidDirect == "intent: direct summary" \in StepsOf("url_intent_detector")
IntentFailed == "intent: error, defaulting to RAG" \in StepsOf("url_intent_detector")

\* C27: the intent classifier sets url_summarize_direct to true if and only
\* if at least one URL was detected, the session has no uploaded temp files
\* and the intent LLM call succeeded with a verdict containing
\* DIRECT_SUMMARY; with no URL or with temp files it decides false without
\* calling the LLM, and when the LLM call fails it decides false.
C27_BypassDecision ==
    Executed("url_intent_detector") =>
        /\ IntentBypass <=>
              /\ FindUrls(state.question) # << >>
              /\ ~Truthy(state.temp_files)
              /\ IntentAskedLLM
              /\ IntentSaidDirect
              /\ ~IntentFailed
        /\ (FindUrls(state.question) = << >> \/ Truthy(state.temp_files))
              => (~IntentBypass /\ ~IntentAskedLLM)
        /\ IntentFailed => ~IntentBypass
\* a question with URLs and uploaded files was sent to the RAG branch
\* without an LLM call
C27_Witness ==
    /\ Executed("url_intent_detector")
    /\ FindUrls(state.question) # << >>
    /\ Truthy(state.temp_files)
    /\ ~IntentBypass
    /\ ~IntentAskedLLM
    /\ Executed("router")

\* the supersteps in which node n ran
StepsWith(n) == {i \in 1..Len(history) : n \in history[i]}
EachNodeAtMostOnce == \A n \in Nodes : Cardinality(StepsWith(n)) <= 1
\* a ran in an earlier superstep than b, if both ran
Before(a, b) == \A i \in StepsWith(a), j \in StepsWith(b) : i < j
PrimaryNodes == {"url_processor", "vector_retriever", "temp_retriever"}
TerminalNodes == {"generator", "insufficient_handler"}
RagOrder ==
    /\ \A p \in PrimaryNodes : Before("router", p) /\ Before(p, "retrieval_evaluator")
    /\ Before("retrieval_evaluator", "graph_retriever")
    /\ Before("retrieval_evaluator", "reranker")
    /\ Before("graph_retriever", "reranker")
    /\ Before("reranker", "grader")
    /\ \A t \in TerminalNodes : Before("grader", t)
    /\ \A n \in {"reranker", "grader"} \cup TerminalNodes :
         (RagBranch /\ StepsWith(n) # {}) =>
             \A m \in {"router", "vector_retriever", "retrieval_evaluator"} :
                 StepsWith(m) # {}
    /\ (RagBranch /\ StepsWith("grader") # {}) => StepsWith("reranker") # {}
    /\ (RagBranch /\ StepsWith("generator") # {}) => StepsWith("grader") # {}
    /\ ~(Executed("generator") /\ Executed("insufficient_handler"))
\* a run that is not over can always take a step
NeverStuck == run = "running" => ENABLED Next

\* C28: every pipeline run terminates at END after each node has executed
\* at most once, and in the RAG branch the nodes execute in the order
\* router, primary retrieval nodes, retrieval_evaluator, optionally
\* graph_retriever, reranker, grader, then exactly one of generator and
\* insufficient_handler.
C28_RunsEndInOrder ==
    /\ EachNodeAtMostOnce
    /\ RagOrder
    /\ RunOver => run = "ended"
    /\ (RunOver /\ RagBranch) => \E t \in TerminalNodes : Executed(t)
    /\ NeverStuck
\* a run in the RAG branch is over without having reached END
C28_RagRunStoppedBeforeEnd ==
    /\ run = "aborted"
    /\ RagBranch
    /\ StepsWith("retrieval_evaluator") = {}

\* the primary nodes route_after_router dispatched in this run
Dispatched == outputs["router"].next
PrecheckStarted ==
    "retrieval_evaluator" \in tasks \cup pending \/ Executed("retrieval_evaluator")
\* what a primary node returned for a channel is what the channel holds
ChannelComplete(n, key) ==
    (n \in Dispatched /\ key \in DOMAIN outputs[n].upd) => state[key] = outputs[n].upd[key]
\* the pre-check starts only when every dispatched primary node has
\* returned and its superstep is closed, and it sees their whole output
PrecheckAfterPrimaries ==
    PrecheckStarted =>
        /\ "vector_retriever" \in Dispatched
        /\ \A p \in Dispatched : Executed(p) /\ StepsWith(p) # {} /\ p \notin tasks
        /\ ChannelComplete("vector_retriever", "vector_context")
        /\ ChannelComplete("temp_retriever", "temp_context")
PrecheckAtMostOnce == Cardinality(StepsWith("retrieval_evaluator")) <= 1

\* C29: the pre-check executes exactly once per RAG-branch run, and only
\* after every primary node dispatched by route_after_router for that run
\* has completed, so it evaluates the complete vector_context and
\* temp_context of the stage.
C29_PrecheckOnceAfterPrimaries ==
    /\ PrecheckAfterPrimaries
    /\ PrecheckAtMostOnce
    /\ (RunOver /\ RagBranch) => Cardinality(StepsWith("retrieval_evaluator")) = 1
\* a RAG-branch run is over and the pre-check has not run in it, while
\* another primary node of the stage had already returned
C29_RunOverWithoutPrecheck ==
    /\ RunOver
    /\ RagBranch
    /\ StepsWith("retrieval_evaluator") = {}
    /\ Executed("temp_retriever")

\* the positions of a list whose first 200 characters occur at no earlier
\* position
FirstSeenAt(all_context) ==
    {i \in 1..Len(all_context) :
        \A j \in 1..(i - 1) :
            all_context[j].content.head # all_context[i].content.head}
\* the position in a list of the k-th smallest member of a set of positions
RECURSIVE KthOf(_, _)
KthOf(positions, k) ==
    LET least == CHOOSE i \in positions : \A j \in positions : i <= j
    IN  IF k = 1 THEN least ELSE KthOf(positions \ {least}, k - 1)
\* the items at the first-seen positions, in list order
FirstSeenItems(all_context) ==
    [k \in 1..Cardinality(FirstSeenAt(all_context)) |->
        all_context[KthOf(FirstSeenAt(all_context), k)]]
\* the reranker went through deduplication
DedupRan == Executed("reranker") /\ Len(FusionInput) >= 2
\* what sorting or reranking makes of the first-seen items
FusedFirstSeen(resp) ==
    IF fusion_path(FusionInput, is_rerank_enabled) = "rerank"
    THEN rerank(FirstSeenItems(FusionInput), vector_search_results, min_relevance_score, resp)
    ELSE sort_and_truncate(FirstSeenItems(FusionInput))

\* C30: when fusion deduplicates two or more items, items sharing the same
\* first 200 characters of content are collapsed to the one that comes first
\* in the concatenation of the vector, graph and ephemeral lists, so a
\* vector item survives a tie with a graph or ephemeral item, and the
\* survivors keep their concatenation order before sorting: the list the
\* node returns is the sorted or reranked list of the first-seen items.
C30_DedupKeepsFirstSeen ==
    /\ Len(FusionInput) >= 2 =>
          /\ Dedup(FusionInput, {}) = FirstSeenItems(FusionInput)
          /\ \A i \in 1..Len(Dedup(FusionInput, {})) :
                LET kept == Dedup(FusionInput, {})[i]
                IN  (\E j \in 1..Len(state.vector_context) :
                         state.vector_context[j].content.head = kept.content.head)
                        => kept.retrieval_source = "vector"
    /\ DedupRan =>
          \E resp \in RerankResponses :
              outputs["reranker"].upd.context = FusedFirstSeen(resp)
\* a pass where an ephemeral item longer than 200 characters starts as a
\* vector item does and as a graph item does, and only the vector item is
\* returned, next to an item of another text
C30_Witness ==
    /\ DedupRan
    /\ Len(state.vector_context) = 2
    /\ state.vector_context[1].content = Content("a", "")
    /\ state.vector_context[2].content.head # "a"
    /\ Len(state.graph_context) = 1
    /\ state.graph_context[1].content = Content("a", "")
    /\ Len(state.temp_context) = 1
    /\ state.temp_context[1].content = LongContent
    /\ Len(outputs["reranker"].upd.context) = 2
    /\ \A i \in 1..2 :
          outputs["reranker"].upd.context[i].content.head = "a"
              => /\ outputs["reranker"].upd.context[i].retrieval_source = "vector"
                 /\ outputs["reranker"].upd.context[i].content = Content("a", "")
    /\ \E i \in 1..2 : outputs["reranker"].upd.context[i].content.head = "a"

\* the rerank call of the fusion node failed: fusion on its own has no other
\* backend that could
RerankFailed == Executed("reranker") /\ "reranker" \in calls.rerank /\ faults > 0
\* the items of a list, as a set
ItemsOf(context) == {context[i] : i \in 1..Len(context)}

\* C31: when rerank is enabled but the rerank call fails, the fused context
\* is the deduplicated list sorted by pre-existing score descending and then
\* truncated to top-N: no item left out of the result has a higher score
\* than an item kept in it.
C31_FailedRerankSortsThenTruncates ==
    RerankFailed =>
        LET context == outputs["reranker"].upd.context
            unique_context == Dedup(FusionInput, {})
        IN  /\ context = sort_and_truncate(unique_context)
            /\ \A left \in ItemsOf(unique_context) \ ItemsOf(context) :
                  \A kept \in ItemsOf(context) : Score(left) <= Score(kept)
\* the call failed and the graph item, scored above both vector items, is
\* missing from the result
C31_HigherScoredItemLeftOut ==
    /\ RerankFailed
    /\ Len(state.vector_context) = 2
    /\ Len(state.graph_context) = 1
    /\ Score(state.graph_context[1]) > Score(state.vector_context[1])
    /\ \A i \in 1..Len(outputs["reranker"].upd.context) :
          outputs["reranker"].upd.context[i].retrieval_source = "vector"
    /\ Len(outputs["reranker"].upd.context) = 2

\* the items of the collections whose query succeeded, in query order
RECURSIVE SucceededItems(_)
SucceededItems(outs) ==
    IF outs = << >> THEN << >>
    ELSE (IF Head(outs).ok
          THEN [i \in 1..Len(Head(outs).hits) |->
                   Item(Head(outs).hits[i].content, 10 - Head(outs).hits[i].dist, "vector", "")]
          ELSE << >>) \o SucceededItems(Tail(outs))
\* the queries that raised
FailedQueries == {i \in 1..Len(calls.query) : ~calls.query[i].ok}
\* the warnings among the trace steps of a node
Warnings(steps) == SelectSeq(steps, LAMBDA x : x = "vector: search warning")
\* the vector adapter got past the embedding and queried the collections
VectorQueried == calls.query # << >>

\* C32: in the vector adapter a failure while querying one organization's
\* collection does not stop the others: the node returns (sorted and cut
\* to top-N, or reranked) the items of every in-scope organization whose
\* query succeeded, records one trace warning per failed organization, and
\* returns an empty list, not an error, when every query fails.
C32_QueryFailureIsContained ==
    VectorQueried =>
        /\ ~Raised("vector_retriever")
        /\ Executed("vector_retriever")
        /\ Len(calls.query) = Len(IF state.org_ids # << >> THEN state.org_ids ELSE << 0 >>)
        /\ LET upd == outputs["vector_retriever"].upd
               all_results == SortByScoreDesc(SucceededItems(calls.query))
           IN  /\ Len(Warnings(upd.steps))
                    = Cardinality(FailedQueries)
               /\ IF "vector_retriever" \in calls.rerank
                  THEN \E resp \in RerankResponses :
                         upd.vector_context = rerank(all_results, vector_search_results,
                                                     min_relevance_score, resp)
                  ELSE upd.vector_context = Take(all_results, vector_search_results)
               /\ Cardinality(FailedQueries) = Len(calls.query) => upd.vector_context = << >>
\* the first organization's query raised and the second organization's item
\* was returned, with one warning in the trace
C32_Witness ==
    /\ VectorQueried
    /\ Len(calls.query) = 2
    /\ FailedQueries = {1}
    /\ Len(calls.query[2].hits) >= 1
    /\ Executed("vector_retriever")
    /\ "vector_retriever" \notin calls.rerank
    /\ Len(outputs["vector_retriever"].upd.vector_context) >= 1
    /\ outputs["vector_retriever"].upd.vector_context[1].content = calls.query[2].hits[1].content
    /\ Len(Warnings(outputs["vector_retriever"].upd.steps)) = 1

\* the ephemeral adapter has run without a session identifier or on a
\* collection that holds nothing
TempRanOnNothing ==
    /\ Executed("temp_retriever")
    /\ (state.session_id = NoneV \/ tempStore = {})

\* C33: the ephemeral adapter returns an empty temp_context without calling
\* the embedding capability whenever the session identifier is absent or
\* the session's collection holds no data.
C33_NoDataNoEmbedding ==
    TempRanOnNothing =>
        /\ outputs["temp_retriever"].upd.temp_context = << >>
        /\ "temp_retriever" \notin calls.embed
\* the adapter ran for a session whose collection is empty, the store
\* answering the count
C33_Witness ==
    /\ TempRanOnNothing
    /\ state.session_id # NoneV
    /\ faults = 0
    /\ outputs["temp_retriever"].upd.temp_context = << >>
    /\ outputs["temp_retriever"].upd.steps = << "temp: searching", "temp: no data" >>
    /\ calls.embed = {}

\* this step is url_processor running
IntakeStep == "url_processor" \in tasks /\ "url_processor" \notin tasks'
\* the trace steps with which the node reports that it stored nothing
IntakeFailureSteps == {"url: processing failed", "url: no content"}
IntakeStepFailsSoft ==
    IntakeStep =>
        /\ run' = "running"
        /\ "url_processor" \in DOMAIN outputs'
        /\ LET out == outputs'["url_processor"]
               last == out.upd.steps[Len(out.upd.steps)]
           IN  /\ DOMAIN out.upd = {"steps"}
               /\ out.upd.steps # << >>
               /\ out.next = {"retrieval_evaluator"}
               /\ (faults' > faults \/ last \in IntakeFailureSteps)
                      => (tempStore' = tempStore /\ last \in IntakeFailureSteps)
               /\ state.session_id = NoneV
                      => (tempStore' = tempStore /\ calls'.fetch = calls.fetch)

\* C34: URL intake fails soft: if fetching, parsing, embedding or storing
\* URL content fails, url_processor creates zero chunks, returns only
\* descriptive trace steps and the run continues to retrieval_evaluator;
\* with no session identifier it performs no fetch and no write.
C34_IntakeFailsSoft == [][IntakeStepFailsSoft]_vars
\* ingestion raised for a session with an empty collection: the node
\* returned its failure step, stored nothing, and the evaluator is next
C34_Witness ==
    /\ Executed("url_processor")
    /\ state.session_id # NoneV
    /\ faults = 1
    /\ outputs["url_processor"].upd.steps
         = << "url: found", "url: fetching", "url: processing failed" >>
    /\ tempStore = {}
    /\ "retrieval_evaluator" \in tasks

\* the Retrieved Items an adapter node returned under a key of its result
Produced(n, key) ==
    IF Executed(n) /\ key \in DOMAIN outputs[n].upd THEN ItemsOf(outputs[n].upd[key]) ELSE {}
AdapterItems ==
    Produced("vector_retriever", "vector_context")
        \cup Produced("graph_retriever", "graph_context")
        \cup Produced("temp_retriever", "temp_context")
\* a relevance score within [0,1] (scores are in tenths), or no score
ScoreInRange(x) == x.scored => (0 <= x.score /\ x.score <= 10)

\* C35: every Retrieved Item produced by the vector, graph or ephemeral
\* adapter carries a relevance score within [0,1] (or no score), for every
\* cosine distance between 0 and 2 the store can return.
C35_AdapterScoresInRange == \A x \in AdapterItems : ScoreInRange(x)
\* the vector adapter returned an item with a negative score for a chunk at
\* a distance above 1
C35_VectorItemScoredBelowZero ==
    /\ Executed("vector_retriever")
    /\ "vector_retriever" \notin calls.rerank
    /\ \E i \in 1..Len(calls.query) :
          /\ calls.query[i].ok
          /\ \E h \in Range(calls.query[i].hits) : h.dist > 10 /\ h.dist <= 20
    /\ \E x \in Produced("vector_retriever", "vector_context") : x.score < 0

\* C36: under any interleaving of concurrent requests each lazily created
\* process singleton is constructed at most once per process and every
\* later call returns that same instance.
C36_SingletonsBuiltOnce ==
    \A name \in Singletons :
        /\ constructions[name] <= 1
        /\ Cardinality(handedOut[name]) <= 1
\* two threads found the global empty, both ran the constructor, and the
\* getter has handed out two different embedding clients
C36_TwoInstancesHandedOut ==
    /\ constructions["embeddings"] = 2
    /\ handedOut["embeddings"] = {1, 2}
    /\ \A t \in Threads : getter[t].pc = "idle"

\* the organizations of the request's scope
Scope == Range(state.org_ids)
\* the collection a query index of the vector adapter went to (0: the
\* default collection, which belongs to no organization)
QueriedCollection(i) == IF state.org_ids # << >> THEN state.org_ids[i] ELSE 0
\* the item is a hit of a query on a collection of the scope, or on the
\* default collection when the scope is empty
FromScopedCollection(x) ==
    \E i \in 1..Len(calls.query) :
        /\ calls.query[i].ok
        /\ \E h \in Range(calls.query[i].hits) : h.content = x.content
        /\ QueriedCollection(i) \in Scope \cup {0}
\* the item is a chunk of the requesting session's collection
FromOwnSession(x) == \E chunk \in tempStore : chunk.content = x.content
VectorAndTempWithinScope ==
    \A x \in ItemsOf(state.context) :
        /\ x.retrieval_source = "vector" => FromScopedCollection(x)
        /\ x.retrieval_source = "temp" => FromOwnSession(x)

\* C37: every item in the final context of a run originates from data of
\* an organization contained in the request's org scope or from the
\* requesting session's own ephemeral collection; no adapter contributes an
\* item from an organization outside the scope, including when org_ids is
\* empty.
C37_ContextWithinScope ==
    /\ VectorAndTempWithinScope
    /\ \A x \in ItemsOf(state.context) :
          x.retrieval_source = "graph" => GraphDataOrg \in Scope
\* a finished run whose scope does not contain the organization the graph
\* was filled from, with the graph item in its final context
C37_GraphItemFromOutsideScope ==
    /\ run = "ended"
    /\ Executed("generator")
    /\ GraphDataOrg \notin Scope
    /\ state.org_ids # << >>
    /\ \E x \in ItemsOf(state.context) : x.retrieval_source = "graph"

\* this step is a query of the ephemeral adapter on a session's collection
QueryStep == storeOp'.op = "query" /\ now' = now
QueryStepReturnsNoExpiredChunk ==
    QueryStep => \A chunk \in storeOp'.returned : ~is_expired(chunk, now)

\* C38: the ephemeral adapter never returns a chunk whose expire_at
\* timestamp is earlier than the time of the query: an expired chunk that
\* the sweep has not yet removed is not placed in temp_context.
C38_QueryReturnsNoExpiredChunk == [][QueryStepReturnsNoExpiredChunk]_vars

\* the delete request for document d has completed and its ingestion task,
\* if any, has finished
DeletedAndSettled(d) == docRows[d].status = "deleted" /\ docRows[d].task = "finished"

\* C39: once delete_document_by_id has completed for a document and any
\* background run_ingestion task for the same document has finished, the
\* organization's vector collection holds no chunk of that document and no
\* document record exists, under every interleaving of the delete request
\* with the ingestion task.
C39_DeletedDocumentLeavesNoChunk ==
    \A d \in 1..MaxDocs : DeletedAndSettled(d) => orgChunks[d] = {}
\* a document was ingested and deleted, its row is gone, and its chunks are
\* still in the collection
C39_ChunksOutliveTheirDocument ==
    \E d \in 1..MaxDocs : DeletedAndSettled(d) /\ orgChunks[d] # {}

\* the distinct elements of a list in order of first occurrence
RECURSIVE FirstOccurrences(_)
FirstOccurrences(xs) ==
    IF xs = << >> THEN << >>
    ELSE << Head(xs) >> \o FirstOccurrences(SelectSeq(Tail(xs), LAMBDA u : u # Head(xs)))
\* the URLs of the question in order of first occurrence
UrlsOfQuestion == FirstOccurrences(FindUrls(state.question))
\* the chunks URL intake has stored
IntakeChunks == {chunk \in tempStore : chunk.source_type = "url"}
\* the direct-summary branch fetched a page
DirectFetched ==
    /\ Executed("direct_url_summarizer")
    /\ "context" \in DOMAIN outputs["direct_url_summarizer"].upd

\* C40: for a fixed question containing two or more distinct URLs, the URL
\* selected by the direct-summary branch (detected_urls[0]) and the at most
\* five URLs passed to URL intake (detected_urls[:5]) are uniquely
\* determined by the question, being its URLs in order of first occurrence,
\* so two runs on the same question fetch the same URLs.
C40_UrlsInOrderOfFirstOccurrence ==
    /\ \A n \in {"url_intent_detector", "router"} :
          Executed(n) => outputs[n].upd.detected_urls = UrlsOfQuestion
    /\ DirectFetched =>
          outputs["direct_url_summarizer"].upd.context[1].source = UrlsOfQuestion[1]
    /\ \A chunk \in IntakeChunks : chunk.source = UrlsOfQuestion[1]
\* the question names www.b.com first and https://a.com second, and the
\* direct-summary branch fetched https://a.com
C40_DirectBranchFetchedSecondUrl ==
    /\ DirectFetched
    /\ Len(UrlsOfQuestion) = 2
    /\ UrlsOfQuestion[1] = "www.b.com"
    /\ state.detected_urls = << "https://a.com", "www.b.com" >>
    /\ outputs["direct_url_summarizer"].upd.context[1].source = "https://a.com"

====
